---- MODULE Spec2Model ----
(***************************************************************************)
(* A model of the tool-calling orchestration core of ai_chat_console:      *)
(* Conversation (history trimming), ChatEngine.send_message /              *)
(* stream_message, ToolExecutor.execute_by_name and ToolRegistry.get_tool. *)
(***************************************************************************)
EXTENDS Integers, Sequences, FiniteSets, TLC

\* ------------------------------------------------------------------ bounds
MaxHist == 3        \* largest max_history explored
MaxAppends == 5     \* add_message calls explored in SpecConv
MaxCalls == 2       \* tool calls one provider response or feed reports
MaxFeed == 4        \* items one provider feed produces
MaxExec == 2        \* invocations of the ToolExecutor explored in SpecExec
MaxReg == 3         \* calls on the ToolRegistry explored in SpecReg
MaxProv == 2        \* calls on the provider explored in SpecProv
MaxServers == 2     \* entries of MCPConfig.servers
MaxMcpCalls == 3    \* initialize and cleanup calls explored in SpecMcp
MaxSessionMsgs == 2 \* messages a stored session holds in SpecSession
MaxClock == 2       \* latest instant datetime.now() reaches in SpecSession

\* ------------------------------------------------------------------ state
VARIABLES
    messages,             \* Conversation.messages
    max_history,          \* Conversation.max_history
    preTrim,              \* history: the list right after the last append, before _trim_history
    appendedLog,          \* history: every message handed to add_message, in call order
    tools,                \* ToolRegistry._tools (name -> instance)
    tool_classes,         \* ToolRegistry._tool_classes (name -> class)
    instantiated,         \* tool instances constructed so far (the serial of the newest)
    registry_calls,       \* history: the calls made on the ToolRegistry and their results
    execution_history,    \* ToolExecutor.execution_history
    config_enable_tools,  \* ChatConfig.enable_tools
    supports_tools,       \* BaseProvider.supports_tools
    active_session,       \* SessionManager has an active session
    disk,                 \* the messages last written to the active session's file
    pc,                   \* where the running send_message / stream_message is
    mode,                 \* "send" or "stream": the operation of the turn
    withTools,            \* the turn uses the provider's tools-enabled operation
    tool_calls,           \* response_data["tool_calls"] / accumulated_tool_calls (insertion order)
    idx,                  \* position of the running for-loop over tool_calls
    current_tool_call,    \* stream_message: index of current_tool_call in tool_calls, 0 for None
    accumulated_content,  \* stream_message: accumulated_content
    feedLen,              \* items the provider feed has produced in this turn
    outcome,              \* "none", "returned" or "raised": how the call ended
    raisedBy,             \* history: "provider" or "tool", what raised the exception
    startMsgs,            \* history: Conversation.messages when the call was entered
    created,              \* history: Message objects created so far
    turnNo,               \* history: ordinal of the turn (tool-call ids are unique to it)
    followups,            \* history: follow-up provider calls issued in this turn
    trace,                \* history: tool events of this turn, in order
    executed,             \* history: the execute_by_name calls of this turn, in order
    yielded,              \* history: the chunks stream_message produced, in order
    finalItem,            \* history: the feed reported calls in a final tool_calls item
    sent,                 \* history: per started call, its position in the feed and the JSON text sent for it
    stops,                \* history: the positions of the feed's stop items
    running,              \* ToolExecutor.execute calls suspended at their await
    returned,             \* history: how each invocation of the ToolExecutor ended, in order
    recordLog,            \* history: every record _record_execution made, in order
    invoked,              \* history: invocations of the ToolExecutor so far
    provider_variant,     \* the concrete BaseProvider class of the provider object
    provider_calls,       \* history: the calls made on the provider and how each ended
    mcp_manager,          \* the MCPManager: config.servers, sessions, exit_stack, _tools,
                          \* _initialized, connection_status
    mcp_run,              \* the position of initialize in its loop, and history: the
                          \* endpoints attempted, the contexts open, how the last call ended
    session_manager,      \* the SessionManager: _sessions_cache, the session files on
                          \* disk, _active_session
    session_run,          \* history: the last call on the SessionManager or ChatSession,
                          \* what it returned and the manager before it
    turn_inputs,          \* the enable_tools and tools arguments of the turn to run, and
                          \* whether a constructor called by get_tool_schemas raises
    tool_run,             \* history: the last tool call dispatched with concrete arguments:
                          \* its path, whether validate_parameters and the tool's execute
                          \* were invoked, and the ToolResult
    engine_sessions       \* the ChatEngine and its SessionManager with objects by
                          \* reference: the Conversation objects, engine.conversation,
                          \* _sessions_cache, the session files, _active_session

convVars == <<messages, max_history, preTrim, appendedLog>>
registryVars == <<tools, tool_classes, instantiated, registry_calls>>
configVars == <<config_enable_tools, supports_tools, active_session, turn_inputs>>
toolRunVars == <<tool_run>>
engineSessionVars == <<engine_sessions>>
turnVars == <<pc, mode, withTools, tool_calls, idx, current_tool_call,
              accumulated_content, feedLen, outcome, raisedBy, startMsgs,
              created, turnNo, followups, trace, executed, yielded, finalItem,
              sent, stops>>
execVars == <<running, returned, recordLog, invoked>>
providerVars == <<provider_variant, provider_calls>>
mcpVars == <<mcp_manager, mcp_run>>
sessionVars == <<session_manager, session_run>>
serviceVars == <<providerVars, mcpVars, sessionVars>>
vars == <<messages, max_history, preTrim, appendedLog, tools, tool_classes,
          instantiated, registry_calls,
          execution_history, config_enable_tools, supports_tools, active_session,
          disk, pc, mode, withTools, tool_calls, idx, current_tool_call,
          accumulated_content, feedLen, outcome, raisedBy, startMsgs, created,
          turnNo, followups, trace, executed, yielded, finalItem, sent, stops, running,
          returned, recordLog, invoked,
          provider_variant, provider_calls, mcp_manager, mcp_run,
          session_manager, session_run, turn_inputs, tool_run, engine_sessions>>

\* ------------------------------------------------------------------ Message
Roles == {"system", "user", "assistant", "tool"}

\* [m for m in s if Test(m)], order kept
RECURSIVE SelectSeqBy(_, _)
SelectSeqBy(s, want) ==
    IF s = <<>> THEN <<>>
    ELSE IF Head(s).role \in want
         THEN <<Head(s)>> \o SelectSeqBy(Tail(s), want)
         ELSE SelectSeqBy(Tail(s), want)

\* providers/base.py Message; tool_calls None and tool_call_id None are <<>>;
\* n is the identity of the Python object (its creation ordinal)
Message(role, content, calls, call_id, n) ==
    [role |-> role, content |-> content, tool_calls |-> calls,
     tool_call_id |-> call_id, n |-> n]

SystemMsgs(s) == SelectSeqBy(s, {"system"})
OtherMsgs(s) == SelectSeqBy(s, Roles \ {"system"})

\* ------------------------------------------------------------------ Conversation
\* Python's s[start:] for any integer start
PySliceFrom(s, start) ==
    LET from == IF start < 0
                THEN (IF Len(s) + start < 0 THEN 0 ELSE Len(s) + start)
                ELSE (IF start > Len(s) THEN Len(s) ELSE start)
    IN SubSeq(s, from + 1, Len(s))

\* a plain FIFO bound that ignores roles
TrimHistoryFifo(msgs, maxh) ==
    IF Len(msgs) > maxh
    THEN SubSeq(msgs, Len(msgs) - maxh + 1, Len(msgs))
    ELSE msgs

\* Conversation._trim_history
TrimHistory(msgs, maxh) ==
    IF Len(msgs) > maxh
    THEN LET system_msgs == SystemMsgs(msgs)
             other_msgs == OtherMsgs(msgs)
             recent_msgs == PySliceFrom(other_msgs, -(maxh - Len(system_msgs)))
         IN system_msgs \o recent_msgs
    ELSE msgs

\* Conversation.add_message: append, then trim
AddMessageTo(msgs, m, maxh) == TrimHistory(Append(msgs, m), maxh)

\* the parts of the program the engine's turns do not touch, before any call
ProviderAtRest ==
    /\ provider_variant = "Anthropic"
    /\ provider_calls = <<>>

\* the kinds of entry config.servers holds: with a url, with a command, with neither
EndpointKinds == {"url", "command", "neither"}

\* MCPManager.__init__ on the given config.servers
NewManager(servers) ==
    [servers |-> servers, sessions |-> <<>>, exit_stack |-> <<>>, tools |-> <<>>,
     initialized |-> FALSE, connection_status |-> <<>>]

\* no call on the manager is running or has been made
RunAtRest ==
    [pc |-> 0, calls |-> 0, op |-> "none", prev |-> "none", result |-> "none",
     ran |-> FALSE, attempted |-> {}, open |-> <<>>]

\* a manager without configured servers, never used
McpAtRest ==
    /\ mcp_manager = NewManager(<<>>)
    /\ mcp_run = RunAtRest

\* Optional[...] fields: None, or a value
Absent == <<>>
Given(v) == <<v>>

\* SessionManager.__init__ on an empty sessions directory
NewSessionManager == [cache |-> <<>>, files |-> <<>>, active |-> Absent]

\* no call on the SessionManager has been made
SessionRunAtRest ==
    [op |-> "none", id |-> "", format |-> "", view |-> <<>>, before |-> NewSessionManager]

SessionsAtRest ==
    /\ session_manager = NewSessionManager
    /\ session_run = SessionRunAtRest

ServicesAtRest ==
    /\ ProviderAtRest
    /\ McpAtRest
    /\ SessionsAtRest

\* the engine's part of the state while no turn is running
\* an engine without a system prompt and an empty sessions directory
NoSessions ==
    [system_prompt |-> <<>>, heap |-> << <<>> >>, conversation |-> 1, cache |-> <<>>,
     files |-> <<>>, active |-> <<>>, created |-> 0, ops |-> 0,
     provided |-> <<>>, loaded |-> <<>>, origin |-> "constructed",
     last |-> [op |-> "none", id |-> "", ok |-> FALSE, before |-> <<>>]]

\* no tool call has been dispatched with concrete arguments
NoRun == [n |-> 0, via |-> "none", arguments |-> <<>>, validated |-> FALSE,
          executed |-> FALSE, raised |-> FALSE,
          result |-> [success |-> FALSE, result |-> "None", error |-> "None"]]

\* the arguments of a turn are not fixed beforehand
AnyInputs == [enable_tools |-> "any", tools |-> "any", ctor_raises |-> FALSE]

EngineAtRest ==
    /\ tools = <<>>
    /\ instantiated = 0
    /\ registry_calls = <<>>
    /\ tool_classes = <<>>
    /\ execution_history = <<>>
    /\ config_enable_tools = TRUE
    /\ supports_tools = TRUE
    /\ active_session = FALSE
    /\ disk = <<>>
    /\ pc = "idle"
    /\ mode = "none"
    /\ withTools = FALSE
    /\ tool_calls = <<>>
    /\ idx = 0
    /\ current_tool_call = 0
    /\ accumulated_content = <<>>
    /\ feedLen = 0
    /\ outcome = "none"
    /\ raisedBy = "none"
    /\ startMsgs = <<>>
    /\ created = 0
    /\ turnNo = 0
    /\ followups = 0
    /\ trace = <<>>
    /\ executed = <<>>
    /\ yielded = <<>>
    /\ finalItem = FALSE
    /\ sent = <<>>
    /\ stops = <<>>
    /\ running = {}
    /\ returned = <<>>
    /\ recordLog = <<>>
    /\ invoked = 0
    /\ turn_inputs = AnyInputs
    /\ tool_run = NoRun
    /\ engine_sessions = NoSessions

\* ------------------------------------------------------------------ SpecConv
\* any sequence of Conversation.add_message calls on a fresh Conversation whose
\* history limit is at least one message
InitConv ==
    /\ messages = <<>>
    /\ max_history \in 1..MaxHist
    /\ preTrim = <<>>
    /\ appendedLog = <<>>
    /\ EngineAtRest
    /\ ServicesAtRest

AddMessage(role) ==
    /\ Len(appendedLog) < MaxAppends
    /\ LET m == Message(role, <<role>>, <<>>, <<>>, Len(appendedLog) + 1)
       IN /\ messages' = AddMessageTo(messages, m, max_history)
          /\ preTrim' = Append(messages, m)
          /\ appendedLog' = Append(appendedLog, m)
    /\ UNCHANGED <<max_history, registryVars, execution_history, configVars, toolRunVars, engineSessionVars, disk,
                   turnVars, execVars, serviceVars>>

NextConv == \E role \in Roles : AddMessage(role)

SpecConv == InitConv /\ [][NextConv]_vars

\* the last add_message call ran the trimming branch of _trim_history
TrimRan == Len(preTrim) > max_history

\* C2: after every add_message call the conversation holds as many system-role
\* messages as were appended so far: trimming discards none of them.
C2_SystemKept == Len(SystemMsgs(messages)) = Len(SystemMsgs(appendedLog))

\* a trim that dropped a message while an older system message stayed
C2_Witness ==
    /\ TrimRan
    /\ Len(messages) < Len(preTrim)
    /\ preTrim[1].role = "system"
    /\ messages[1] = preTrim[1]

\* C3: whenever max_history >= the number of system messages (the boundary
\* max_history = that number included), len(messages) <= max_history.
C3_HistoryBound ==
    max_history >= Len(SystemMsgs(messages)) => Len(messages) <= max_history

\* the last k elements of s, none for k <= 0
TakeLast(s, k) ==
    IF k <= 0 THEN <<>>
    ELSE IF k >= Len(s) THEN s
    ELSE SubSeq(s, Len(s) - k + 1, Len(s))

\* C4: when an append makes len(messages) exceed max_history, the result is all
\* system messages, in order, followed by exactly the last
\* (max_history - system_count) non-system messages, in order.
C4_TrimResult ==
    TrimRan =>
        messages = SystemMsgs(preTrim)
                   \o TakeLast(OtherMsgs(preTrim), max_history - Len(SystemMsgs(preTrim)))

\* C5: when trimming runs with system_count >= max_history, no non-system
\* message is kept.
C5_TrimClamp ==
    (TrimRan /\ Len(SystemMsgs(preTrim)) >= max_history) => OtherMsgs(messages) = <<>>

\* ------------------------------------------------------------------ ToolRegistry
\* "calculator": a built-in class, registered lazily by ChatEngine.__init__;
\* "custom": a class registered with register_class whose constructor can raise;
\* "missing": a name the provider asks for that the registry does not know
ToolNames == {"calculator", "custom", "missing"}
FlakyClasses == {"custom"}

\* the names the provider's tool calls carry: a registered class (which
\* instantiates or raises) and an unknown name
RequestedNames == {"custom", "missing"}

\* a tool class is <<the name its tools carry, a version>>: two classes can
\* carry the same name
ToolClasses == {<<"calculator", 1>>, <<"custom", 1>>, <<"custom", 2>>}
NameOf(cls) == cls[1]

\* a tool instance: its class and the serial of its construction (its identity)
Instance(cls, serial) == [class |-> cls, serial |-> serial]

\* Python's None where a tool is expected
None == Instance(<<"none", 0>>, 0)

\* dict assignment and del on a dict held as a function
MapPut(m, k, v) == [x \in DOMAIN m \cup {k} |-> IF x = k THEN v ELSE m[x]]
MapDel(m, k) == [x \in DOMAIN m \ {k} |-> m[x]]

\* the registry of a ChatEngine after __init__: the built-in classes, lazily
BuiltinClasses == [name \in {"calculator", "custom"} |-> <<name, 1>>]

\* ToolRegistry.get_tool: kind "tool" (an instance), "none" (None) or "raise"
\* (the class's constructor raised); reg is _tools after the call, made the
\* number of instances constructed after it
GetTool(name, ctorRaises) ==
    IF name \notin DOMAIN tools
    THEN IF name \in DOMAIN tool_classes
         THEN IF ctorRaises
              THEN [kind |-> "raise", tool |-> None, reg |-> tools, made |-> instantiated]
              ELSE LET tool == Instance(tool_classes[name], instantiated + 1)
                   IN [kind |-> "tool", tool |-> tool, reg |-> MapPut(tools, name, tool),
                       made |-> instantiated + 1]
         ELSE [kind |-> "none", tool |-> None, reg |-> tools, made |-> instantiated]
    ELSE [kind |-> "tool", tool |-> tools[name], reg |-> tools, made |-> instantiated]

\* ToolRegistry.list_tools
ListTools == DOMAIN tools \cup DOMAIN tool_classes

\* the schema an instance of the class reports
SchemaOf(cls) == [name |-> NameOf(cls), class |-> cls]

\* the names in a fixed order, to lay a dict out as a list (the order of the
\* list, Python's insertion order, is not modelled)
NameSeq == <<"calculator", "custom", "missing">>

\* ToolRegistry.get_tool_schemas, lines 75-93: the schemas of the instances,
\* then of the classes whose name has no instance; a class whose constructor
\* raises is skipped with a warning
GetToolSchemas(ctorRaises) ==
    LET instantiatedNames == SelectSeq(NameSeq, LAMBDA n : n \in DOMAIN tools)
        classNames == SelectSeq(NameSeq, LAMBDA n :
                          /\ n \in DOMAIN tool_classes
                          /\ n \notin DOMAIN tools
                          /\ ~(ctorRaises /\ n \in FlakyClasses))
    IN [i \in 1..Len(instantiatedNames) |-> SchemaOf(tools[instantiatedNames[i]].class)]
       \o [i \in 1..Len(classNames) |-> SchemaOf(tool_classes[classNames[i]])]

\* ------------------------------------------------------------------ ToolExecutor
HistoryCap == 100

\* what awaiting tool.execute(**arguments) under wait_for can do
Behaviours == {"ok", "failed", "raise", "timeout"}

ToolResult(success, result, error) ==
    [success |-> success, result |-> result, error |-> error]

\* ToolExecutor.execute: the ToolResult returned and the error_type recorded
ExecuteResult(behaviour) ==
    CASE behaviour = "ok" -> [res |-> ToolResult(TRUE, "value", "None"), error_type |-> "None"]
      [] behaviour = "failed" -> [res |-> ToolResult(FALSE, "None", "tool error"), error_type |-> "None"]
      [] behaviour = "timeout" -> [res |-> ToolResult(FALSE, "None", "timed out"), error_type |-> "timeout"]
      [] behaviour = "raise" -> [res |-> ToolResult(FALSE, "None", "execution failed"), error_type |-> "Exception"]

\* a log that, once full, refuses the newest record
RecordExecutionKeepOldest(history, name, res, error_type, timestamp) ==
    LET appended == Append(history, [tool_name |-> name, success |-> res.success,
                                     error_type |-> error_type,
                                     timestamp |-> timestamp])
    IN IF Len(appended) > HistoryCap THEN SubSeq(appended, 1, HistoryCap) ELSE appended

\* ToolExecutor._record_execution; the timestamp is a logical clock
RecordExecution(history, name, res, error_type, timestamp) ==
    LET appended == Append(history, [tool_name |-> name, success |-> res.success,
                                     error_type |-> error_type,
                                     timestamp |-> timestamp])
    IN IF Len(appended) > HistoryCap
       THEN SubSeq(appended, Len(appended) - HistoryCap + 1, Len(appended))
       ELSE appended

\* ToolExecutor.execute_by_name's result for a name the registry does not know
NotFoundResult == ToolResult(FALSE, "None", "not found in registry")

\* the content of the tool-role message built from a ToolResult
ToolMessageContent(res) ==
    IF res.success THEN <<"result", res.result>> ELSE <<"Error", res.error>>

\* ------------------------------------------------------------------ SpecExec
\* ToolExecutor.__init__: default_timeout
DefaultTimeout == 30

\* the timeout argument of execute / execute_by_name: <<>> is None, <<t>> is t
Timeouts == {<<>>, <<0>>, <<5>>}

\* seconds a tool's execute needs before it returns or raises
Durations == {10, 40}

\* how a tool's execute ends when it is left to run
Endings == {"ok", "failed", "raise"}

\* line 47: timeout = timeout or self.default_timeout
TimeoutInForce(timeout) ==
    IF timeout = <<>> THEN DefaultTimeout
    ELSE IF timeout[1] = 0 THEN DefaultTimeout
    ELSE timeout[1]

\* the exception classes the handlers of execute (lines 63 and 77) catch:
\* asyncio.TimeoutError from wait_for, TypeError from binding **arguments,
\* RuntimeError standing for what a tool's execute raises
HandlersWithoutBinding == {"TimeoutError", "RuntimeError"}

CaughtByHandlers == {"TimeoutError", "TypeError", "RuntimeError"}

\* the exception, if any, that the try block of execute (lines 49-61) raises
RaisedInTry(binds, ending, duration, timeout) ==
    IF ~binds THEN "TypeError"
    ELSE IF duration >= TimeoutInForce(timeout) THEN "TimeoutError"
    ELSE IF ending = "raise" THEN "RuntimeError"
    ELSE "None"

\* ToolExecutor.execute, lines 49-89: kind "result" with the ToolResult returned
\* and the error_type recorded, or kind "exception" when nothing catches
ExecuteOutcome(binds, ending, duration, timeout) ==
    LET exc == RaisedInTry(binds, ending, duration, timeout)
    IN IF exc = "None"
       THEN [kind |-> "result", res |-> ExecuteResult(ending).res, error_type |-> "None"]
       ELSE IF exc \notin CaughtByHandlers
       THEN [kind |-> "exception", res |-> ToolResult(FALSE, "None", "None"),
             error_type |-> exc]
       ELSE IF exc = "TimeoutError"
       THEN [kind |-> "result",
             res |-> ToolResult(FALSE, "None", <<"timed out after", TimeoutInForce(timeout)>>),
             error_type |-> "timeout"]
       ELSE [kind |-> "result", res |-> ToolResult(FALSE, "None", "execution failed"),
             error_type |-> exc]

\* the list _record_execution appends to: the executor's list as it is now
HistoryAtStart(r) == r.seen

HistoryAtRecord(r) == execution_history

\* records an executor that has already run n tools holds
PriorRecord(i) ==
    [tool_name |-> "calculator", success |-> TRUE, error_type |-> "None", timestamp |-> i]

PriorExecutions == {0, HistoryCap - 1}

InitExec ==
    /\ messages = <<>>
    /\ max_history = 1
    /\ preTrim = <<>>
    /\ appendedLog = <<>>
    /\ tools = <<>>
    /\ instantiated = 0
    /\ registry_calls = <<>>
    /\ tool_classes = BuiltinClasses
    /\ \E n \in PriorExecutions :
          /\ execution_history = [i \in 1..n |-> PriorRecord(i)]
          /\ recordLog = [i \in 1..n |-> [e |-> 0, rec |-> PriorRecord(i)]]
    /\ config_enable_tools = TRUE
    /\ supports_tools = TRUE
    /\ turn_inputs = AnyInputs
    /\ tool_run = NoRun
    /\ engine_sessions = NoSessions
    /\ active_session = FALSE
    /\ disk = <<>>
    /\ pc = "idle"
    /\ mode = "none"
    /\ withTools = FALSE
    /\ tool_calls = <<>>
    /\ idx = 0
    /\ current_tool_call = 0
    /\ accumulated_content = <<>>
    /\ feedLen = 0
    /\ outcome = "none"
    /\ raisedBy = "none"
    /\ startMsgs = <<>>
    /\ created = 0
    /\ turnNo = 0
    /\ followups = 0
    /\ trace = <<>>
    /\ executed = <<>>
    /\ yielded = <<>>
    /\ finalItem = FALSE
    /\ sent = <<>>
    /\ stops = <<>>
    /\ running = {}
    /\ returned = <<>>
    /\ invoked = 0
    /\ ServicesAtRest

ExecFrame == UNCHANGED <<convVars, tool_classes, registry_calls, configVars, toolRunVars, engineSessionVars, disk, turnVars,
                         serviceVars>>

\* the invocation r leaves execute (lines 56-89): a caught outcome is recorded
\* and returned, an uncaught exception propagates
LeaveExecute(r, binds, ending, duration, others) ==
    LET out == ExecuteOutcome(binds, ending, duration, r.timeout)
        rec == [tool_name |-> r.name, success |-> out.res.success,
                error_type |-> out.error_type, timestamp |-> Len(recordLog) + 1]
    IN /\ IF out.kind = "result"
          THEN /\ execution_history' = RecordExecution(HistoryAtRecord(r), r.name, out.res,
                                                       out.error_type, Len(recordLog) + 1)
               /\ recordLog' = Append(recordLog, [e |-> r.e, rec |-> rec])
          ELSE UNCHANGED <<execution_history, recordLog>>
       /\ returned' = Append(returned,
              [e |-> r.e, via |-> r.via, reached |-> TRUE, kind |-> out.kind,
               res |-> out.res, timeout |-> r.timeout, binds |-> binds,
               ending |-> IF out.error_type = "timeout" THEN "cancelled" ELSE ending,
               duration |-> duration, concurrent |-> others])

\* ToolExecutor.execute, lines 46-54: entered with a tool instance; when the
\* arguments bind, the call suspends at its await, else it ends at once
EnterExecute(via, name, timeout, binds) ==
    LET r == [e |-> invoked + 1, via |-> via, name |-> name, timeout |-> timeout,
              seen |-> execution_history]
    IN /\ invoked' = invoked + 1
       /\ IF binds
          THEN /\ running' = running \cup {r}
               /\ UNCHANGED <<execution_history, recordLog, returned>>
          ELSE /\ LeaveExecute(r, FALSE, "raise", 0, running # {})
               /\ UNCHANGED running

\* a direct ToolExecutor.execute call on an instance of the calculator tool
Execute(timeout, binds) ==
    /\ invoked < MaxExec
    /\ EnterExecute("execute", "calculator", timeout, binds)
    /\ UNCHANGED <<tools, instantiated>>
    /\ ExecFrame

\* ToolExecutor.execute_by_name, lines 110-118, called as ChatEngine calls it:
\* without a timeout
ExecuteByName(name, ctorRaises) ==
    /\ invoked < MaxExec
    /\ LET got == GetTool(name, ctorRaises)
           timeout == <<>>
           ended(kind) == [e |-> invoked + 1, via |-> "execute_by_name", reached |-> FALSE,
                           kind |-> kind, res |-> NotFoundResult, timeout |-> timeout,
                           binds |-> TRUE, ending |-> "none", duration |-> 0,
                           concurrent |-> running # {}]
       IN /\ (ctorRaises => name \in FlakyClasses /\ got.kind = "raise")
          /\ tools' = got.reg
          /\ instantiated' = got.made
          /\ CASE got.kind = "tool" -> EnterExecute("execute_by_name", name, timeout, TRUE)
               [] got.kind = "none" ->
                    /\ returned' = Append(returned, ended("result"))
                    /\ invoked' = invoked + 1
                    /\ UNCHANGED <<execution_history, recordLog, running>>
               [] got.kind = "raise" ->
                    /\ returned' = Append(returned, ended("exception"))
                    /\ invoked' = invoked + 1
                    /\ UNCHANGED <<execution_history, recordLog, running>>
    /\ ExecFrame

\* a suspended execute resumes: the tool ended or wait_for timed out
ExecuteEnds(r, ending, duration) ==
    /\ r \in running
    /\ running' = running \ {r}
    /\ LeaveExecute(r, TRUE, ending, duration, running # {r})
    /\ UNCHANGED <<tools, instantiated, invoked>>
    /\ ExecFrame

NextExec ==
    \/ \E t \in Timeouts, b \in BOOLEAN : Execute(t, b)
    \/ \E name \in RequestedNames, c \in BOOLEAN : ExecuteByName(name, c)
    \/ \E r \in running, en \in Endings, d \in Durations : ExecuteEnds(r, en, d)

SpecExec == InitExec /\ [][NextExec]_vars

\* ------------------------------------------------------------------ claims on the executor
\* the records made for invocation e
RecordsOf(e) == {i \in DOMAIN recordLog : recordLog[i].e = e}

\* every record made so far, in the order made
LogRecords == [i \in DOMAIN recordLog |-> recordLog[i].rec]

\* C11: when the tool's execute raises, while running or while the arguments
\* are bound to the call, ToolExecutor.execute returns a ToolResult with
\* success false and an error, and propagates nothing.
C11_ExecutorNeverThrows ==
    \A i \in DOMAIN returned :
        (returned[i].reached /\ (~returned[i].binds \/ returned[i].ending = "raise")) =>
            /\ returned[i].kind = "result"
            /\ ~returned[i].res.success
            /\ returned[i].res.error # "None"

\* an execute call whose arguments did not bind returned a failed result
C11_Witness ==
    \E i \in DOMAIN returned :
        /\ returned[i].reached
        /\ ~returned[i].binds
        /\ returned[i].kind = "result"
        /\ ~returned[i].res.success

\* the timeout a call is given: the per-call one when passed, else the default
ClaimedTimeout(timeout) == IF timeout = <<>> THEN DefaultTimeout ELSE timeout[1]

\* C12: a tool that does not complete within the timeout of the call (the
\* per-call timeout whenever one is passed, else the default of 30) yields a
\* failed ToolResult whose error names that duration.
C12_Timeout ==
    \A i \in DOMAIN returned :
        (/\ returned[i].reached
         /\ returned[i].binds
         /\ returned[i].duration >= ClaimedTimeout(returned[i].timeout)) =>
            /\ returned[i].kind = "result"
            /\ ~returned[i].res.success
            /\ returned[i].ending = "cancelled"
            /\ returned[i].res.error
                  = <<"timed out after", ClaimedTimeout(returned[i].timeout)>>

\* C13: execution_history never holds more than 100 records, and they are the
\* most recent min(n, 100) of the n records made, in the order made.
C13_LogBound ==
    /\ Len(execution_history) <= HistoryCap
    /\ execution_history = TakeLast(LogRecords, HistoryCap)

\* a record was made on a full log: the oldest left, the newest is last
C13_Witness ==
    /\ Len(recordLog) > HistoryCap
    /\ Len(execution_history) = HistoryCap
    /\ execution_history[HistoryCap] = recordLog[Len(recordLog)].rec
    /\ execution_history[1] # recordLog[1].rec

\* C14: every invocation of the executor that returned a ToolResult, by execute
\* or by execute_by_name, made exactly one record, and the record's success
\* flag is the result's.
C14_EveryInvocationRecorded ==
    \A i \in DOMAIN returned :
        returned[i].kind = "result" =>
            /\ Cardinality(RecordsOf(returned[i].e)) = 1
            /\ \A j \in RecordsOf(returned[i].e) :
                  recordLog[j].rec.success = returned[i].res.success

\* C15: with executions interleaved at their awaits, every execution that ran
\* a tool made exactly one record, no record made is missing from the log
\* unless it was evicted as the oldest, and the log holds at most 100 records.
C15_RecordingSerialized ==
    /\ \A i \in DOMAIN returned :
          (returned[i].reached /\ returned[i].kind = "result") =>
              Cardinality(RecordsOf(returned[i].e)) = 1
    /\ Len(execution_history) <= HistoryCap
    /\ Len(execution_history) >= Len(recordLog) \/ Len(execution_history) = HistoryCap
    /\ LET evicted == Len(recordLog) - Len(execution_history)
       IN \A k \in DOMAIN execution_history :
             execution_history[k] = recordLog[k + evicted].rec

\* two executions were suspended together, both ended and were recorded on a
\* log that was full
C15_Witness ==
    /\ Len(recordLog) > HistoryCap
    /\ \E i, j \in DOMAIN returned :
          /\ i # j
          /\ returned[i].concurrent
          /\ returned[i].reached /\ returned[i].kind = "result" /\ returned[i].binds
          /\ returned[j].reached /\ returned[j].kind = "result" /\ returned[j].binds

\* ------------------------------------------------------------------ ChatEngine
\* should_enable_tools of send_message / stream_message; override and toolsArg
\* are the enable_tools and tools arguments ("None" when not given)
ShouldEnableTools(override, toolsArg) ==
    IF override # "None"
    THEN override = "True"
    ELSE /\ config_enable_tools
         /\ supports_tools
         /\ (toolsArg # "None" \/ Cardinality(ListTools) > 0)

\* available_tools is truthy: the tools argument when given; when it is None
\* and should_enable_tools holds, the schemas get_tool_schemas returns
ToolsAvailable(override, toolsArg, ctorRaises) ==
    IF ShouldEnableTools(override, toolsArg) /\ toolsArg = "None"
    THEN GetToolSchemas(ctorRaises) # <<>>
    ELSE toolsArg = "some"

\* the call site without its own test of supports_tool_calling()
UseToolsWhenFlagged(override, toolsArg, ctorRaises) ==
    /\ ShouldEnableTools(override, toolsArg)
    /\ ToolsAvailable(override, toolsArg, ctorRaises)

\* the provider's tools-enabled operation is the one called
UseToolsOperation(override, toolsArg, ctorRaises) ==
    /\ ShouldEnableTools(override, toolsArg)
    /\ ToolsAvailable(override, toolsArg, ctorRaises)
    /\ supports_tools

\* the order in which a for-loop over n tool calls visits them
IterationOrderReversed(n) == [i \in 1..n |-> n + 1 - i]

IterationOrder(n) == [i \in 1..n |-> i]

\* the tool call the loop is at
LoopCall == IterationOrder(Len(tool_calls))[idx]

\* self.conversation.messages.pop() of the except handlers
PopLast(msgs) == IF msgs = <<>> THEN msgs ELSE SubSeq(msgs, 1, Len(msgs) - 1)

\* SessionManager.save_session through ChatEngine.save_current_session
SaveCurrentSession(msgs) == IF active_session THEN msgs ELSE disk

\* the conversations a turn can start from: a fresh engine, or a session with
\* a system prompt whose earlier plain turn left a user and an assistant message
PriorHistories ==
    LET S == Message("system", <<"prompt">>, <<>>, <<>>, 1)
        U(n) == Message("user", <<"u">>, <<>>, <<>>, n)
        A(n) == Message("assistant", <<"t">>, <<>>, <<>>, n)
    IN { <<>>, <<S, U(2), A(3)>> }

InitChat ==
    /\ max_history \in {1, MaxHist}
    /\ messages \in {h \in PriorHistories : Len(h) <= max_history}
    /\ preTrim = <<>>
    /\ appendedLog = <<>>
    /\ tools = <<>>
    /\ instantiated = 0
    /\ registry_calls = <<>>
    /\ tool_classes = BuiltinClasses
    /\ execution_history = <<>>
    /\ config_enable_tools = TRUE
    /\ supports_tools = TRUE
    /\ turn_inputs = AnyInputs
    /\ tool_run = NoRun
    /\ engine_sessions = NoSessions
    /\ active_session \in BOOLEAN
    /\ disk = IF active_session THEN messages ELSE <<>>
    /\ pc = "idle"
    /\ mode = "none"
    /\ withTools = FALSE
    /\ tool_calls = <<>>
    /\ idx = 0
    /\ current_tool_call = 0
    /\ accumulated_content = <<>>
    /\ feedLen = 0
    /\ outcome = "none"
    /\ raisedBy = "none"
    /\ startMsgs = <<>>
    /\ created = Len(messages)
    /\ turnNo = 0
    /\ followups = 0
    /\ trace = <<>>
    /\ executed = <<>>
    /\ yielded = <<>>
    /\ finalItem = FALSE
    /\ sent = <<>>
    /\ stops = <<>>
    /\ running = {}
    /\ returned = <<>>
    /\ recordLog = <<>>
    /\ invoked = 0
    /\ ServicesAtRest

\* what every step of a turn leaves alone
TurnFrame == UNCHANGED <<max_history, preTrim, appendedLog, tool_classes, registry_calls,
                         configVars, toolRunVars, engineSessionVars,
                         startMsgs, turnNo, mode, execVars, serviceVars>>

\* the entry of send_message / stream_message up to the first provider await:
\* resolve the tool flags, append the user message, call the provider
EnterTurn(op, override, toolsArg, ctorRaises) ==
    /\ pc = "idle"
    /\ outcome = "none"
    /\ mode' = op
    /\ withTools' = UseToolsOperation(override, toolsArg, ctorRaises)
    /\ messages' = AddMessageTo(messages, Message("user", <<"u">>, <<>>, <<>>, created + 1),
                                max_history)
    /\ created' = created + 1
    /\ startMsgs' = messages
    /\ turnNo' = turnNo + 1
    /\ pc' = IF op = "send" THEN "send_first" ELSE "stream_feed"
    /\ UNCHANGED <<max_history, preTrim, appendedLog, registryVars, execution_history,
                   configVars, toolRunVars, engineSessionVars, disk, tool_calls, idx, current_tool_call,
                   accumulated_content, feedLen, outcome, raisedBy, followups, trace,
                   executed, yielded, finalItem, sent, stops, execVars, serviceVars>>

\* ChatEngine.send_message, lines 175-233
SendMessage(override, toolsArg, ctorRaises) ==
    EnterTurn("send", override, toolsArg, ctorRaises)

\* the except handler of send_message / stream_message: pop and re-raise
RaiseOut(by) ==
    /\ messages' = PopLast(messages)
    /\ outcome' = "raised"
    /\ raisedBy' = by
    /\ pc' = "done"

\* the end of a successful turn: append the assistant message, save the session
FinishTurn(content, calls) ==
    /\ messages' = AddMessageTo(messages,
                        Message("assistant", content, calls, <<>>, created + 1),
                        max_history)
    /\ created' = created + 1
    /\ disk' = SaveCurrentSession(messages')
    /\ outcome' = "returned"
    /\ pc' = "done"

\* the tool calls a provider response can carry: up to MaxCalls calls with
\* provider-assigned ids, unique to the turn and the call
ToolCall(k, name) == [id |-> <<turnNo, k>>, name |-> name, arguments |-> <<"obj", 0>>,
                      arguments_json |-> <<>>]

Responses ==
    UNION { { [k \in 1..n |-> ToolCall(k, names[k])] : names \in [1..n -> RequestedNames] }
            : n \in 0..MaxCalls }

\* the tool_calls list of the assistant message: {id, name, arguments} per call
ToolCallDicts(calls) ==
    [i \in 1..Len(calls) |->
        [id |-> calls[i].id, name |-> calls[i].name, arguments |-> calls[i].arguments]]

\* send_message: the first provider call raises (lines 256-259)
SendFirstRaises ==
    /\ pc = "send_first"
    /\ RaiseOut("provider")
    /\ UNCHANGED <<tools, instantiated, execution_history, disk, withTools, tool_calls, idx,
                   current_tool_call, accumulated_content, feedLen, created,
                   followups, trace>>
    /\ UNCHANGED <<executed, yielded, finalItem, sent, stops>>
    /\ TurnFrame

\* send_message: the first provider call returns (lines 221-254); a response
\* without tool calls ends the turn, one with tool calls enters _handle_tool_calls
SendFirstReturns(resp) ==
    /\ pc = "send_first"
    /\ (~withTools => resp = <<>>)
    /\ IF resp = <<>>
       THEN /\ FinishTurn(<<"t">>, <<>>)
            /\ UNCHANGED <<tool_calls, idx>>
       ELSE /\ tool_calls' = resp
            /\ idx' = 1
            /\ pc' = "send_loop"
            /\ UNCHANGED <<messages, created, disk, outcome>>
    /\ UNCHANGED <<tools, instantiated, execution_history, withTools, current_tool_call,
                   accumulated_content, feedLen, raisedBy, followups, trace>>
    /\ UNCHANGED <<executed, yielded, finalItem, sent, stops>>
    /\ TurnFrame

\* _handle_tool_calls, lines 522-532 with execute_by_name lines 110-118: look the
\* tool up; an unknown name gives the not-found result and its tool message at
\* once, a known one starts executing, a constructor that raises ends the call
SendToolLookup(ctorRaises) ==
    /\ pc = "send_loop"
    /\ idx <= Len(tool_calls)
    /\ LET call == tool_calls[LoopCall]
           got == GetTool(call.name, ctorRaises)
       IN /\ (ctorRaises => call.name \in FlakyClasses /\ got.kind = "raise")
          /\ tools' = got.reg
          /\ instantiated' = got.made
          /\ executed' = Append(executed, [call |-> LoopCall, arguments |-> call.arguments])
          /\ CASE got.kind = "raise" ->
                    /\ RaiseOut("tool")
                    /\ trace' = Append(trace, <<"abort", LoopCall>>)
                    /\ UNCHANGED <<idx, created>>
               [] got.kind = "none" ->
                    /\ messages' = AddMessageTo(messages,
                            Message("tool", ToolMessageContent(NotFoundResult), <<>>,
                                    call.id, created + 1), max_history)
                    /\ created' = created + 1
                    /\ trace' = trace \o << <<"skip", LoopCall>>, <<"msg", LoopCall>> >>
                    /\ idx' = idx + 1
                    /\ UNCHANGED <<pc, outcome, raisedBy>>
               [] got.kind = "tool" ->
                    /\ pc' = "send_exec"
                    /\ trace' = Append(trace, <<"start", LoopCall>>)
                    /\ UNCHANGED <<messages, created, idx, outcome, raisedBy>>
    /\ UNCHANGED <<execution_history, disk, withTools, tool_calls, current_tool_call,
                   accumulated_content, feedLen, followups, yielded, finalItem, sent,
                   stops>>
    /\ TurnFrame

\* _handle_tool_calls, lines 528-546 with ToolExecutor.execute: the execution
\* ends (result, failed result, exception or timeout), is recorded, and its
\* tool-role message is appended
SendToolDone(behaviour) ==
    /\ pc = "send_exec"
    /\ LET call == tool_calls[LoopCall]
           ex == ExecuteResult(behaviour)
       IN /\ execution_history' = RecordExecution(execution_history, call.name,
                                                  ex.res, ex.error_type, Len(trace))
          /\ messages' = AddMessageTo(messages,
                            Message("tool", ToolMessageContent(ex.res), <<>>, call.id,
                                    created + 1), max_history)
          /\ created' = created + 1
          /\ trace' = trace \o << <<"end", LoopCall>>, <<"msg", LoopCall>> >>
    /\ idx' = idx + 1
    /\ pc' = "send_loop"
    /\ UNCHANGED <<tools, instantiated, disk, withTools, tool_calls, current_tool_call,
                   accumulated_content, feedLen, outcome, raisedBy, followups>>
    /\ UNCHANGED <<executed, yielded, finalItem, sent, stops>>
    /\ TurnFrame

\* the for-loop of _handle_tool_calls is over
LoopDone == idx > Len(tool_calls)

\* _handle_tool_calls, lines 548-556: the follow-up provider call is issued
SendFollowup ==
    /\ pc = "send_loop"
    /\ LoopDone
    /\ followups' = followups + 1
    /\ pc' = "send_followup"
    /\ UNCHANGED <<messages, tools, instantiated, execution_history, disk, withTools, tool_calls, idx,
                   current_tool_call, accumulated_content, feedLen, outcome, raisedBy,
                   created, trace>>
    /\ UNCHANGED <<executed, yielded, finalItem, sent, stops>>
    /\ TurnFrame

\* the follow-up call returns: lines 558-562 and 241-254
SendFollowupReturns ==
    /\ pc = "send_followup"
    /\ FinishTurn(<<"t">>, ToolCallDicts(tool_calls))
    /\ UNCHANGED <<tools, instantiated, execution_history, withTools, tool_calls, idx,
                   current_tool_call, accumulated_content, feedLen, raisedBy,
                   followups, trace>>
    /\ UNCHANGED <<executed, yielded, finalItem, sent, stops>>
    /\ TurnFrame

\* the follow-up call raises: lines 256-259
SendFollowupRaises ==
    /\ pc = "send_followup"
    /\ RaiseOut("provider")
    /\ UNCHANGED <<tools, instantiated, execution_history, disk, withTools, tool_calls, idx,
                   current_tool_call, accumulated_content, feedLen, created,
                   followups, trace>>
    /\ UNCHANGED <<executed, yielded, finalItem, sent, stops>>
    /\ TurnFrame

Overrides == {"None", "True", "False"}
ToolsArgs == {"None", "empty", "some"}

NextSend ==
    \/ \E o \in Overrides, t \in ToolsArgs, c \in BOOLEAN : SendMessage(o, t, c)
    \/ SendFirstRaises
    \/ \E resp \in Responses : SendFirstReturns(resp)
    \/ \E c \in BOOLEAN : SendToolLookup(c)
    \/ \E b \in Behaviours : SendToolDone(b)
    \/ SendFollowup
    \/ SendFollowupReturns
    \/ SendFollowupRaises

\* ------------------------------------------------------------------ stream_message
\* ChatEngine.stream_message, lines 280-335
StreamMessage(override, toolsArg, ctorRaises) ==
    EnterTurn("stream", override, toolsArg, ctorRaises)

\* fragments of JSON text a tool_call_delta carries: the two halves of an
\* object with two members
Fragments == { <<"{", "k">>, <<"k", "}">> }

\* json.loads on the accumulated text: an object is "{", members, "}"
JsonValid(text) ==
    /\ Len(text) >= 2
    /\ text[1] = "{"
    /\ text[Len(text)] = "}"
    /\ \A i \in 2..(Len(text) - 1) : text[i] = "k"

JsonValue(text) == <<"obj", Len(text) - 2>>

\* accumulated_tool_calls[id] = call: a new key goes last, a known key keeps its place
DictPut(calls, call) ==
    IF \E i \in 1..Len(calls) : calls[i].id = call.id
    THEN [i \in 1..Len(calls) |-> IF calls[i].id = call.id THEN call ELSE calls[i]]
    ELSE Append(calls, call)

DictIndex(calls, id) == CHOOSE i \in 1..Len(calls) : calls[i].id = id

\* a text fragment of the feed: chunk_data["content"], or an item of
\* provider.stream_message
TextFragment == <<"t">>

\* line 391: error_text, "Error executing <name>: <e>"
ErrorText == <<"Error executing">>

\* ChatResponse(content=text) as stream_message yields it, tagged with the
\* branch that produced it and the accumulated call it belongs to (0: none)
Chunk(kind, k, text) == <<kind, k, text>>

AccumulateLast(content, text) == text

\* accumulated_content += text (lines 354, 388, 394, 400, 408)
Accumulate(content, text) == content \o text

StreamFrame ==
    /\ UNCHANGED <<tools, instantiated, execution_history, disk, withTools, idx, outcome, raisedBy,
                   created, followups, trace, messages>>
    /\ TurnFrame

\* a feed item is awaited
AwaitingFeed == pc = "stream_feed" /\ feedLen < MaxFeed

\* lines 338-345: a tool_call_start item
StreamToolCallStart(name) ==
    /\ AwaitingFeed
    /\ withTools
    /\ Len(tool_calls) < MaxCalls
    /\ LET call == [id |-> <<turnNo, Len(tool_calls) + 1>>, name |-> name,
                    arguments |-> <<>>, arguments_json |-> <<>>]
       IN /\ tool_calls' = DictPut(tool_calls, call)
          /\ current_tool_call' = DictIndex(tool_calls', call.id)
    /\ feedLen' = feedLen + 1
    /\ UNCHANGED <<accumulated_content, pc>>
    /\ sent' = Append(sent, [at |-> feedLen + 1, text |-> <<>>])
    /\ UNCHANGED <<executed, yielded, finalItem, stops>>
    /\ StreamFrame

\* a fragment put in front of the text accumulated so far
PrependFragment(json, frag) == frag \o json

\* line 349: current_tool_call["arguments_json"] += partial_json
AppendFragment(json, frag) == json \o frag

\* lines 347-349: a tool_call_delta item; without a current call it falls to the
\* last branch (lines 395-400), which has no content to produce
StreamToolCallDelta(frag) ==
    /\ AwaitingFeed
    /\ withTools
    /\ tool_calls' =
          IF current_tool_call # 0
          THEN [tool_calls EXCEPT ![current_tool_call].arguments_json =
                                      AppendFragment(@, frag)]
          ELSE tool_calls
    /\ feedLen' = feedLen + 1
    /\ UNCHANGED <<accumulated_content, current_tool_call, pc>>
    /\ sent' = IF sent = <<>> THEN sent ELSE [sent EXCEPT ![Len(sent)].text = @ \o frag]
    /\ UNCHANGED <<executed, yielded, finalItem, stops>>
    /\ StreamFrame

\* lines 351-355 and 403-410: a text item is produced and accumulated
StreamContent ==
    /\ AwaitingFeed
    /\ accumulated_content' = Accumulate(accumulated_content, TextFragment)
    /\ yielded' = Append(yielded, Chunk("content", 0, TextFragment))
    /\ feedLen' = feedLen + 1
    /\ UNCHANGED <<tool_calls, current_tool_call, pc, executed, finalItem, sent, stops>>
    /\ StreamFrame

\* lines 395-400: any other item: the OpenAI variant's final tool_calls item,
\* reporting the calls it assembled; _process_response finds no content in it,
\* so nothing is produced and nothing is accumulated
StreamOther ==
    /\ AwaitingFeed
    /\ withTools
    /\ finalItem' = TRUE
    /\ feedLen' = feedLen + 1
    /\ UNCHANGED <<tool_calls, current_tool_call, accumulated_content, pc, executed,
                   yielded, sent, stops>>
    /\ StreamFrame

\* lines 358-360: a stop item starts the loop over the accumulated calls
StreamStop ==
    /\ AwaitingFeed
    /\ withTools
    /\ feedLen' = feedLen + 1
    /\ idx' = 1
    /\ pc' = "stream_loop"
    /\ UNCHANGED <<tools, instantiated, execution_history, disk, withTools, outcome, raisedBy,
                   created, followups, trace, messages, tool_calls, current_tool_call,
                   accumulated_content>>
    /\ stops' = Append(stops, feedLen + 1)
    /\ UNCHANGED <<executed, yielded, finalItem, sent>>
    /\ TurnFrame

\* an error in one call that ends the loop over the accumulated calls
AbortLoop(i, n) == n + 1

\* lines 390-394: the except clause is inside the for-loop, which goes on with
\* the next accumulated call
AfterCaughtError(i, n) == i + 1

\* lines 361-374 and 390-394: parse the arguments, look the tool up; a parse
\* error or a raising constructor is caught and produced as an error text
StreamToolLookup(ctorRaises) ==
    /\ pc = "stream_loop"
    /\ idx <= Len(tool_calls)
    /\ LET call == tool_calls[LoopCall]
           parsed == IF call.arguments_json # <<>>
                     THEN JsonValue(call.arguments_json) ELSE <<"obj", 0>>
           got == GetTool(call.name, ctorRaises)
       IN IF call.arguments_json # <<>> /\ ~JsonValid(call.arguments_json)
          THEN /\ ~ctorRaises
               /\ accumulated_content' = Accumulate(accumulated_content, ErrorText)
               /\ yielded' = Append(yielded, Chunk("error", LoopCall, ErrorText))
               /\ trace' = Append(trace, <<"skip", LoopCall>>)
               /\ idx' = AfterCaughtError(idx, Len(tool_calls))
               /\ UNCHANGED <<tools, instantiated, tool_calls, messages, created, pc, executed>>
          ELSE /\ (ctorRaises => call.name \in FlakyClasses /\ got.kind = "raise")
               /\ tools' = got.reg
               /\ instantiated' = got.made
               /\ tool_calls' = [tool_calls EXCEPT ![LoopCall].arguments = parsed]
               /\ executed' = Append(executed, [call |-> LoopCall, arguments |-> parsed])
               /\ CASE got.kind = "raise" ->
                         /\ accumulated_content' = Accumulate(accumulated_content, ErrorText)
                         /\ yielded' = Append(yielded, Chunk("error", LoopCall, ErrorText))
                         /\ trace' = Append(trace, <<"skip", LoopCall>>)
                         /\ idx' = AfterCaughtError(idx, Len(tool_calls))
                         /\ UNCHANGED <<messages, created, pc>>
                    [] got.kind = "none" ->
                         /\ messages' = AddMessageTo(messages,
                                 Message("tool", ToolMessageContent(NotFoundResult), <<>>,
                                         call.id, created + 1), max_history)
                         /\ created' = created + 1
                         /\ accumulated_content' =
                                Accumulate(accumulated_content,
                                           ToolMessageContent(NotFoundResult))
                         /\ yielded' = Append(yielded,
                                Chunk("result", LoopCall, ToolMessageContent(NotFoundResult)))
                         /\ trace' = trace \o << <<"skip", LoopCall>>, <<"msg", LoopCall>> >>
                         /\ idx' = idx + 1
                         /\ UNCHANGED pc
                    [] got.kind = "tool" ->
                         /\ pc' = "stream_exec"
                         /\ trace' = Append(trace, <<"start", LoopCall>>)
                         /\ UNCHANGED <<messages, created, idx, accumulated_content,
                                        yielded>>
    /\ UNCHANGED <<execution_history, disk, withTools, current_tool_call, feedLen,
                   outcome, raisedBy, followups, finalItem, sent, stops>>
    /\ TurnFrame

\* lines 370-388 with ToolExecutor.execute: the execution ends, is recorded, its
\* tool-role message is appended and its text produced and accumulated
StreamToolDone(behaviour) ==
    /\ pc = "stream_exec"
    /\ LET call == tool_calls[LoopCall]
           ex == ExecuteResult(behaviour)
       IN /\ execution_history' = RecordExecution(execution_history, call.name,
                                                  ex.res, ex.error_type, Len(trace))
          /\ messages' = AddMessageTo(messages,
                            Message("tool", ToolMessageContent(ex.res), <<>>, call.id,
                                    created + 1), max_history)
          /\ created' = created + 1
          /\ accumulated_content' = Accumulate(accumulated_content,
                                                ToolMessageContent(ex.res))
          /\ yielded' = Append(yielded,
                               Chunk("result", LoopCall, ToolMessageContent(ex.res)))
          /\ trace' = trace \o << <<"end", LoopCall>>, <<"msg", LoopCall>> >>
    /\ idx' = idx + 1
    /\ pc' = "stream_loop"
    /\ UNCHANGED <<tools, instantiated, disk, withTools, tool_calls, current_tool_call, feedLen,
                   outcome, raisedBy, followups, executed, finalItem, sent, stops>>
    /\ TurnFrame

\* line 360: the loop at stop is over, the next feed item is awaited
StreamLoopEnds ==
    /\ pc = "stream_loop"
    /\ LoopDone
    /\ pc' = "stream_feed"
    /\ UNCHANGED <<tool_calls, current_tool_call, accumulated_content, feedLen>>
    /\ UNCHANGED <<executed, yielded, finalItem, sent, stops>>
    /\ StreamFrame

\* lines 412-430: the feed ends; the final assistant message is appended
StreamEnds ==
    /\ pc = "stream_feed"
    /\ FinishTurn(accumulated_content, ToolCallDicts(tool_calls))
    /\ UNCHANGED <<tools, instantiated, execution_history, withTools, tool_calls, idx,
                   current_tool_call, accumulated_content, feedLen, raisedBy,
                   followups, trace>>
    /\ UNCHANGED <<executed, yielded, finalItem, sent, stops>>
    /\ TurnFrame

\* lines 432-435: the feed raises
StreamRaises ==
    /\ pc = "stream_feed"
    /\ RaiseOut("provider")
    /\ UNCHANGED <<tools, instantiated, execution_history, disk, withTools, tool_calls, idx,
                   current_tool_call, accumulated_content, feedLen, created,
                   followups, trace>>
    /\ UNCHANGED <<executed, yielded, finalItem, sent, stops>>
    /\ TurnFrame

NextStream ==
    \/ \E o \in Overrides, t \in ToolsArgs, c \in BOOLEAN : StreamMessage(o, t, c)
    \/ \E name \in RequestedNames : StreamToolCallStart(name)
    \/ \E frag \in Fragments : StreamToolCallDelta(frag)
    \/ StreamContent
    \/ StreamOther
    \/ StreamStop
    \/ \E c \in BOOLEAN : StreamToolLookup(c)
    \/ \E b \in Behaviours : StreamToolDone(b)
    \/ StreamLoopEnds
    \/ StreamEnds
    \/ StreamRaises

\* one turn of the engine, sent or streamed
NextChat == NextSend \/ NextStream

Spec == InitChat /\ [][NextChat]_vars

\* ------------------------------------------------------------------ claims on a turn
\* tool events of the turn: <<"start", i>> the execution of the i-th reported
\* call begins, <<"end", i>> it ends, <<"skip", i>> the call is disposed of
\* without running a tool (unknown name, unparsable arguments, raising
\* constructor caught), <<"abort", i>> the lookup raised out of the loop,
\* <<"msg", i>> its tool-role message is appended
EventsOf(kinds) == {p \in DOMAIN trace : trace[p][1] \in kinds}

ToolMessagesFor(i) == {p \in DOMAIN trace : trace[p] = <<"msg", i>>}

\* C1: a send_message call that raises leaves the Conversation with as many
\* messages as it had before the call.
C1_TurnAtomicity ==
    (mode = "send" /\ outcome = "raised") => Len(messages) = Len(startMsgs)

\* C6: after send_message or stream_message, every tool-role message has a
\* tool_call_id equal to a tool_calls[].id of an assistant message that stands
\* earlier in the conversation.
C6_Correlation ==
    pc = "done" =>
        \A i \in DOMAIN messages :
            messages[i].role = "tool" =>
                \E j \in 1..(i - 1) :
                    /\ messages[j].role = "assistant"
                    /\ \E k \in DOMAIN messages[j].tool_calls :
                          messages[j].tool_calls[k].id = messages[i].tool_call_id

\* C7: after a turn that completed, every call listed in the tool_calls of the
\* final assistant message got exactly one tool-role message during the turn.
C7_OneToolMessagePerCall ==
    outcome = "returned" =>
        \A i \in 1..Len(tool_calls) : Cardinality(ToolMessagesFor(i)) = 1

\* C8: a send_message turn whose response carries tool calls issues exactly one
\* follow-up provider call, after the tool-role messages of all its calls were
\* appended, and never a second one.
C8_OneFollowup ==
    (mode = "send" /\ tool_calls # <<>>) =>
        /\ followups <= 1
        /\ followups = 1 => \A i \in 1..Len(tool_calls) : ToolMessagesFor(i) # {}
        /\ pc = "done" => followups = 1

\* C9: within a turn, sent or streamed, tool calls are executed and their
\* tool-role messages appended in the order the provider reported them: before
\* the i-th reported call is taken up every earlier reported call is finished,
\* an execution that began ends before anything else happens, each tool-role
\* message follows its own call at once, and send_message takes each call up
\* once, in rising order.
C9_ReportedOrder ==
    /\ \A p \in EventsOf({"start", "skip", "abort"}) :
          \A i \in 1..(trace[p][2] - 1) :
             \E q \in 1..(p - 1) : trace[q] \in {<<"end", i>>, <<"skip", i>>}
    /\ \A p \in EventsOf({"start"}) :
          p < Len(trace) => trace[p + 1] = <<"end", trace[p][2]>>
    /\ \A p \in EventsOf({"msg"}) :
          p > 1 /\ trace[p - 1] \in {<<"end", trace[p][2]>>, <<"skip", trace[p][2]>>}
    /\ mode = "send" =>
          \A p, q \in EventsOf({"start", "skip", "abort"}) :
             p < q => trace[p][2] < trace[q][2]

\* a streamed turn that ran two reported calls, the first before the second
C9_Witness ==
    /\ mode = "stream"
    /\ \E p, q \in DOMAIN trace :
          /\ p < q
          /\ trace[p] = <<"end", 1>>
          /\ trace[q] = <<"start", 2>>

\* C10: in send_message a failing tool call never aborts the turn: no tool-level
\* error leaves send_message as an exception, and when the loop is over every
\* call of the response has its tool-role message.
C10_ToolFailureIsolated ==
    mode = "send" =>
        /\ raisedBy # "tool"
        /\ followups = 1 => \A i \in 1..Len(tool_calls) : ToolMessagesFor(i) # {}

\* ------------------------------------------------------------------ claims on a streamed turn
\* the execute_by_name calls made for the k-th started call
ExecutionsOf(k) == {p \in DOMAIN executed : executed[p].call = k}

\* the JSON value of the text the feed sent for the k-th started call
SentValue(k) == IF sent[k].text = <<>> THEN <<"obj", 0>> ELSE JsonValue(sent[k].text)

\* C16: when the feed is ended by its one stop, every started call whose
\* fragments, concatenated in arrival order, are a JSON text (or are none) is
\* handed to the executor exactly once, with that text's value as arguments
\* (the empty object for no fragments).
C16_ArgumentAssembly ==
    (mode = "stream" /\ outcome = "returned" /\ stops = <<feedLen>>) =>
        \A k \in DOMAIN sent :
            (sent[k].text = <<>> \/ JsonValid(sent[k].text)) =>
                /\ Cardinality(ExecutionsOf(k)) = 1
                /\ \A p \in ExecutionsOf(k) : executed[p].arguments = SentValue(k)

\* a call whose arguments came in two fragments was executed with their value
C16_Witness ==
    /\ mode = "stream"
    /\ outcome = "returned"
    /\ stops = <<feedLen>>
    /\ \E k \in DOMAIN sent :
          /\ sent[k].text = <<"{", "k", "k", "}">>
          /\ \E p \in ExecutionsOf(k) : executed[p].arguments = <<"obj", 2>>

\* C17: when a streamed turn completes, every call the feed reported has been
\* handed to the executor exactly once: the calls it started, and the calls of
\* a final tool_calls item.
C17_ConsumedOnce ==
    (mode = "stream" /\ outcome = "returned") =>
        /\ \A k \in DOMAIN tool_calls : Cardinality(ExecutionsOf(k)) = 1
        /\ finalItem => executed # <<>>

\* the user message stream_message appended for this turn
TurnUserMessage == Message("user", <<"u">>, <<>>, <<>>, Len(startMsgs) + 1)

InConversation(m) == \E i \in DOMAIN messages : messages[i] = m

\* C18: when stream_message raises, the turn's user message is no longer in the
\* Conversation and every message present before the turn still is.
C18_StreamRetraction ==
    (mode = "stream" /\ outcome = "raised") =>
        /\ ~InConversation(TurnUserMessage)
        /\ \A i \in DOMAIN startMsgs : InConversation(startMsgs[i])

\* the times the loop at stop took the k-th call up
TakeUps(k) == {p \in DOMAIN trace : trace[p] \in {<<"start", k>>, <<"skip", k>>}}

\* the times handling the k-th call ended in the except clause of the loop
CaughtErrors(k) ==
    {p \in DOMAIN trace :
        /\ trace[p] = <<"skip", k>>
        /\ (p = Len(trace) \/ trace[p + 1] # <<"msg", k>>)}

ErrorChunks(k) ==
    {p \in DOMAIN yielded : yielded[p][1] = "error" /\ yielded[p][2] = k}

\* the stop items that came after the k-th call was started
StopsAfter(k) == {j \in DOMAIN stops : stops[j] > sent[k].at}

\* C19: in stream_message an error while handling one accumulated call at stop
\* produces one error chunk and nothing else: the stream does not raise for
\* it, and once the loop is over every accumulated call was taken up at every
\* stop that followed its start.
C19_StreamErrorIsolated ==
    mode = "stream" =>
        /\ raisedBy # "tool"
        /\ \A k \in DOMAIN tool_calls :
              Cardinality(ErrorChunks(k)) = Cardinality(CaughtErrors(k))
        /\ pc \in {"stream_feed", "done"} =>
              \A k \in DOMAIN tool_calls :
                  Cardinality(TakeUps(k)) = Cardinality(StopsAfter(k))

\* the first call's handling failed, the second call ran, a later feed item
\* was consumed and the final assistant message was appended
C19_Witness ==
    /\ mode = "stream"
    /\ outcome = "returned"
    /\ messages # <<>>
    /\ messages[Len(messages)].role = "assistant"
    /\ stops # <<>>
    /\ feedLen > stops[Len(stops)]
    /\ \E p, q \in DOMAIN trace :
          /\ p < q
          /\ p \in CaughtErrors(1)
          /\ trace[q] = <<"end", 2>>

\* C20: when the feed of a streamed turn ends without exception, the assistant
\* message appended last lists exactly the tool calls executed in the turn,
\* each with the arguments it was executed with.
C20_FinalAssistantMessage ==
    (mode = "stream" /\ outcome = "returned") =>
        LET final == messages[Len(messages)]
        IN /\ final.role = "assistant"
           /\ \A j \in DOMAIN final.tool_calls :
                 \E p \in DOMAIN executed :
                    /\ tool_calls[executed[p].call].id = final.tool_calls[j].id
                    /\ executed[p].arguments = final.tool_calls[j].arguments
           /\ \A p \in DOMAIN executed :
                 \E j \in DOMAIN final.tool_calls :
                    final.tool_calls[j].id = tool_calls[executed[p].call].id

\* the contents of the chunks in order, joined as "".join would
RECURSIVE JoinedContent(_)
JoinedContent(chunks) ==
    IF chunks = <<>> THEN <<>>
    ELSE chunks[1][3] \o JoinedContent(Tail(chunks))

\* C37: when stream_message ends without exception, the content of the
\* assistant message appended last is the concatenation, in the order they
\* were produced, of the contents of all chunks yielded in the turn: text
\* fragments, tool result texts and tool error texts.
C37_FinalContentIsYielded ==
    (mode = "stream" /\ outcome = "returned") =>
        LET final == messages[Len(messages)]
        IN /\ final.role = "assistant"
           /\ final.content = JoinedContent(yielded)

\* a turn that ended after a text fragment, a tool result text and a tool
\* error text were yielded
C37_Witness ==
    /\ mode = "stream"
    /\ outcome = "returned"
    /\ \E p, q, r \in DOMAIN yielded :
          /\ yielded[p][1] = "content"
          /\ yielded[q][1] = "result"
          /\ yielded[r][1] = "error"
    /\ messages[Len(messages)].content = JoinedContent(yielded)
    /\ Len(JoinedContent(yielded)) >= 3

\* ------------------------------------------------------------------ SpecReg
\* any sequence of calls on a fresh ToolRegistry: register, register_class,
\* get_tool, unregister and get_tool_schemas, with tool classes of which two
\* carry the same name and whose constructors can raise (FlakyClasses)
InitReg ==
    /\ messages = <<>>
    /\ max_history = 1
    /\ preTrim = <<>>
    /\ appendedLog = <<>>
    /\ EngineAtRest
    /\ ServicesAtRest

\* one call on the registry and what it gave back
RegistryCall(op, name, kind, tool, cls, schemas) ==
    [op |-> op, name |-> name, kind |-> kind, tool |-> tool, class |-> cls,
     schemas |-> schemas]

RegFrame == UNCHANGED <<convVars, execution_history, configVars, toolRunVars, engineSessionVars, disk, turnVars, execVars,
                        serviceVars>>

\* ToolRegistry.register, lines 30-35, on a new instance of cls the caller built
Register(cls) ==
    /\ Len(registry_calls) < MaxReg
    /\ LET tool == Instance(cls, instantiated + 1)
       IN /\ tools' = MapPut(tools, NameOf(cls), tool)
          /\ tool_classes' = MapPut(tool_classes, NameOf(cls), cls)
          /\ instantiated' = instantiated + 1
          /\ registry_calls' = Append(registry_calls,
                 RegistryCall("register", NameOf(cls), "ok", tool, cls, <<>>))
    /\ RegFrame

\* ToolRegistry.register_class, lines 44-47: the temporary instance is only
\* asked for its name; a raising constructor leaves the call by exception
RegisterClass(cls, ctorRaises) ==
    /\ Len(registry_calls) < MaxReg
    /\ ctorRaises => NameOf(cls) \in FlakyClasses
    /\ tool_classes' = IF ctorRaises THEN tool_classes
                       ELSE MapPut(tool_classes, NameOf(cls), cls)
    /\ registry_calls' = Append(registry_calls,
           RegistryCall("register_class", NameOf(cls),
                        IF ctorRaises THEN "raise" ELSE "ok", None, cls, <<>>))
    /\ UNCHANGED <<tools, instantiated>>
    /\ RegFrame

\* a ToolRegistry.get_tool call, lines 59-66
GetToolCall(name, ctorRaises) ==
    /\ Len(registry_calls) < MaxReg
    /\ LET got == GetTool(name, ctorRaises)
       IN /\ ctorRaises => (name \in FlakyClasses /\ got.kind = "raise")
          /\ tools' = got.reg
          /\ instantiated' = got.made
          /\ registry_calls' = Append(registry_calls,
                 RegistryCall("get_tool", name, got.kind, got.tool, None.class, <<>>))
    /\ UNCHANGED tool_classes
    /\ RegFrame

\* ToolRegistry.unregister, lines 117-122
Unregister(name) ==
    /\ Len(registry_calls) < MaxReg
    /\ IF name \in DOMAIN tools
       THEN /\ tools' = MapDel(tools, name)
            /\ tool_classes' = MapDel(tool_classes, name)
       ELSE UNCHANGED <<tools, tool_classes>>
    /\ registry_calls' = Append(registry_calls,
           RegistryCall("unregister", name,
                        IF name \in DOMAIN tools THEN "true" ELSE "false",
                        None, None.class, <<>>))
    /\ UNCHANGED instantiated
    /\ RegFrame

\* a ToolRegistry.get_tool_schemas call
GetToolSchemasCall(ctorRaises) ==
    /\ Len(registry_calls) < MaxReg
    /\ ctorRaises => \E n \in DOMAIN tool_classes \ DOMAIN tools : n \in FlakyClasses
    /\ registry_calls' = Append(registry_calls,
           RegistryCall("get_tool_schemas", "", IF ctorRaises THEN "warned" ELSE "ok",
                        None, None.class, GetToolSchemas(ctorRaises)))
    /\ UNCHANGED <<tools, tool_classes, instantiated>>
    /\ RegFrame

NextReg ==
    \/ \E cls \in ToolClasses : Register(cls)
    \/ \E cls \in ToolClasses, ctorRaises \in BOOLEAN : RegisterClass(cls, ctorRaises)
    \/ \E name \in RequestedNames, ctorRaises \in BOOLEAN : GetToolCall(name, ctorRaises)
    \/ \E name \in RequestedNames : Unregister(name)
    \/ \E ctorRaises \in BOOLEAN : GetToolSchemasCall(ctorRaises)

SpecReg == InitReg /\ [][NextReg]_vars

\* ------------------------------------------------------------------ registry claims
\* the call just made on the registry
LastCall == registry_calls[Len(registry_calls)]

\* the calls that registered the name, by position
RegistrationsOf(name) ==
    {j \in DOMAIN registry_calls :
        /\ registry_calls[j].op \in {"register", "register_class"}
        /\ registry_calls[j].name = name
        /\ registry_calls[j].kind = "ok"}

\* the most recent registration of the name
LastRegistration(name) ==
    registry_calls[CHOOSE j \in RegistrationsOf(name) :
                       \A k \in RegistrationsOf(name) : k <= j]

\* every call before the last one was a register or a register_class
OnlyRegistrationsBefore ==
    \A j \in 1..(Len(registry_calls) - 1) :
        registry_calls[j].op \in {"register", "register_class"}

\* the schemas of the last get_tool_schemas call that carry the name
SchemasFor(name) ==
    {i \in DOMAIN LastCall.schemas : LastCall.schemas[i].name = name}

\* C21: after a sequence of register and register_class calls, get_tool(name)
\* returns the tool of the most recent registration of that name (the instance
\* given to register, or an instance of the class given to register_class), and
\* get_tool_schemas() carries that tool's schema for the name; calls in which a
\* constructor raised are left aside.
C21_LastWriterWins ==
    (registry_calls # <<>> /\ OnlyRegistrationsBefore) =>
        /\ (/\ LastCall.op = "get_tool"
            /\ LastCall.kind # "raise"
            /\ RegistrationsOf(LastCall.name) # {}) =>
               /\ LastCall.kind = "tool"
               /\ LastCall.tool.class = LastRegistration(LastCall.name).class
               /\ LastRegistration(LastCall.name).op = "register" =>
                      LastCall.tool = LastRegistration(LastCall.name).tool
        /\ (LastCall.op = "get_tool_schemas" /\ LastCall.kind = "ok") =>
               \A name \in ToolNames :
                   RegistrationsOf(name) # {} =>
                       \A i \in SchemasFor(name) :
                           LastCall.schemas[i].class = LastRegistration(name).class

\* C22: get_tool_schemas() holds exactly one schema for every name of
\* list_tools() and none for another name, list_tools() is the union of the
\* names with an instance and the names with a class, and a name that has an
\* instance gets the schema of the instance.
C22_OneSchemaPerName ==
    (registry_calls # <<>> /\ LastCall.op = "get_tool_schemas") =>
        /\ \A name \in ToolNames :
              Cardinality(SchemasFor(name)) = IF name \in ListTools THEN 1 ELSE 0
        /\ ListTools = DOMAIN tools \cup DOMAIN tool_classes
        /\ \A name \in DOMAIN tools :
              \A i \in SchemasFor(name) :
                  LastCall.schemas[i] = SchemaOf(tools[name].class)

\* the get_tool calls on the name, by position
LookupsOf(name) ==
    {j \in DOMAIN registry_calls :
        registry_calls[j].op = "get_tool" /\ registry_calls[j].name = name}

\* no register, register_class or unregister call on the name lies between
\* the calls at positions i and k
Undisturbed(name, i, k) ==
    \A j \in (i + 1)..(k - 1) :
        ~(/\ registry_calls[j].name = name
          /\ registry_calls[j].op \in {"register", "register_class", "unregister"})

\* C23: get_tool(name) returns a tool when the name is in list_tools() and None
\* when it is not, and two get_tool calls on a name with no registration or
\* unregistration of that name between them return the same instance.
C23_LazyLookup ==
    /\ (registry_calls # <<>> /\ LastCall.op = "get_tool") =>
          /\ LastCall.name \in ListTools => LastCall.kind = "tool"
          /\ LastCall.name \notin ListTools => LastCall.kind = "none"
    /\ \A name \in ToolNames :
          \A i, k \in LookupsOf(name) :
              (i < k /\ Undisturbed(name, i, k) /\ registry_calls[i].kind = "tool") =>
                  registry_calls[k].tool = registry_calls[i].tool

\* C39: unregister(name) returns true exactly when the name was in
\* list_tools() before the call, and after a true return the name is not in
\* list_tools() and get_tool(name) returns None.  A call that returns false
\* changes nothing, so the name it was given must not be listed after it; a
\* call that returns true follows a registration of the name.
C39_Unregister ==
    (registry_calls # <<>> /\ LastCall.op = "unregister") =>
        /\ LastCall.kind = "false" => LastCall.name \notin ListTools
        /\ LastCall.kind = "true" =>
              /\ RegistrationsOf(LastCall.name) # {}
              /\ LastCall.name \notin ListTools
              /\ GetTool(LastCall.name, FALSE).kind = "none"

\* ------------------------------------------------------------------ providers
\* the concrete variants ProviderFactory creates
Variants == {"Anthropic", "OpenAI", "OpenRouter"}

\* how the backend SDK call inside a message operation ends: it returns, or it
\* raises the SDK's authentication, rate-limit, not-found or other API error,
\* or anything else raises (a malformed response, the network)
BackendOutcomes == {"ok", "authentication", "rate_limit", "not_found", "api_error", "other"}

\* the classes the raised SDK exception is an instance of (the SDKs derive
\* their status errors from APIError)
RaisedClasses(backend) ==
    CASE backend = "authentication" -> {"AuthenticationError", "APIError", "Exception"}
      [] backend = "rate_limit" -> {"RateLimitError", "APIError", "Exception"}
      [] backend = "not_found" -> {"NotFoundError", "APIError", "Exception"}
      [] backend = "api_error" -> {"APIError", "Exception"}
      [] backend = "other" -> {"Exception"}

\* the except clauses of a message operation, in order: <<caught, raised>>
ExceptClauses(variant) ==
    IF variant = "Anthropic"
    THEN << <<"AuthenticationError", "AuthenticationError">>,
            <<"RateLimitError", "ProviderError">>,
            <<"APIError", "ProviderError">>,
            <<"Exception", "ProviderError">> >>
    ELSE << <<"AuthenticationError", "AuthenticationError">>,
            <<"RateLimitError", "RateLimitError">>,
            <<"NotFoundError", "ModelNotFoundError">>,
            <<"APIError", "ProviderError">>,
            <<"Exception", "ProviderError">> >>

\* the exception the first matching except clause raises
Translate(variant, backend) ==
    LET clauses == ExceptClauses(variant)
        first == CHOOSE i \in DOMAIN clauses :
                     /\ clauses[i][1] \in RaisedClasses(backend)
                     /\ \A j \in 1..(i - 1) : clauses[j][1] \notin RaisedClasses(backend)
    IN clauses[first][2]

\* ProviderError and its subclasses
Taxonomy == {"ProviderError", "AuthenticationError", "RateLimitError", "ModelNotFoundError"}

MessageOps == {"create_message", "stream_message", "create_message_with_tools",
               "stream_message_with_tools"}
StreamOps == {"stream_message", "stream_message_with_tools"}

Returned(value) == [kind |-> "return", exception |-> "none", value |-> value]
Raised(exception) == [kind |-> "raise", exception |-> exception, value |-> "none"]

\* how a message operation ends for its caller: awaited (create_*) or iterated
\* with async for (stream_*). OpenRouter's operations raise NotImplementedError
\* in their body; its stream_* are coroutine functions without a yield, so the
\* async for over what they return raises TypeError before the body runs
MessageOutcome(variant, op, backend) ==
    IF variant = "OpenRouter"
    THEN IF op \in StreamOps THEN Raised("TypeError") ELSE Raised("NotImplementedError")
    ELSE IF backend = "ok" THEN Returned("data") ELSE Raised(Translate(variant, backend))

\* get_model_info: a table lookup with a default, in every variant
ModelInfoOutcome(variant) == Returned("ModelInfo")

\* list_models: a list of get_model_info results, in every variant
ListModelsOutcome(variant) ==
    IF ModelInfoOutcome(variant).kind = "return" THEN Returned("models")
    ELSE ModelInfoOutcome(variant)

\* BaseProvider.validate_connection, lines 251-256
ValidateOutcome(variant) ==
    IF ListModelsOutcome(variant).kind = "return" THEN Returned("True") ELSE Returned("False")

\* ------------------------------------------------------------------ SpecProv
\* any sequence of calls on a provider object of one of the three variants
InitProv ==
    /\ messages = <<>>
    /\ max_history = 1
    /\ preTrim = <<>>
    /\ appendedLog = <<>>
    /\ EngineAtRest
    /\ McpAtRest
    /\ SessionsAtRest
    /\ provider_variant \in Variants
    /\ provider_calls = <<>>

ProviderCall(op, backend, ended) ==
    /\ Len(provider_calls) < MaxProv
    /\ provider_calls' = Append(provider_calls,
           [op |-> op, backend |-> backend, kind |-> ended.kind,
            exception |-> ended.exception, value |-> ended.value])
    /\ UNCHANGED <<provider_variant, convVars, registryVars, execution_history, configVars, toolRunVars, engineSessionVars,
                   disk, turnVars, execVars, mcpVars, sessionVars>>

\* the backend is contacted only by the variants that are implemented
Contacted(backend) == provider_variant = "OpenRouter" => backend = "ok"

CreateMessage(backend) ==
    /\ Contacted(backend)
    /\ ProviderCall("create_message", backend,
                    MessageOutcome(provider_variant, "create_message", backend))

ProviderStreamMessage(backend) ==
    /\ Contacted(backend)
    /\ ProviderCall("stream_message", backend,
                    MessageOutcome(provider_variant, "stream_message", backend))

CreateMessageWithTools(backend) ==
    /\ Contacted(backend)
    /\ ProviderCall("create_message_with_tools", backend,
                    MessageOutcome(provider_variant, "create_message_with_tools", backend))

StreamMessageWithTools(backend) ==
    /\ Contacted(backend)
    /\ ProviderCall("stream_message_with_tools", backend,
                    MessageOutcome(provider_variant, "stream_message_with_tools", backend))

GetModelInfo == ProviderCall("get_model_info", "ok", ModelInfoOutcome(provider_variant))

ListModels == ProviderCall("list_models", "ok", ListModelsOutcome(provider_variant))

ValidateConnection ==
    ProviderCall("validate_connection", "ok", ValidateOutcome(provider_variant))

NextProv ==
    \/ \E backend \in BackendOutcomes : CreateMessage(backend)
    \/ \E backend \in BackendOutcomes : ProviderStreamMessage(backend)
    \/ \E backend \in BackendOutcomes : CreateMessageWithTools(backend)
    \/ \E backend \in BackendOutcomes : StreamMessageWithTools(backend)
    \/ GetModelInfo
    \/ ListModels
    \/ ValidateConnection

SpecProv == InitProv /\ [][NextProv]_vars

\* ------------------------------------------------------------------ provider claims
\* C24: on the OpenRouter variant each of the six operations of the capability
\* set ends with a not-implemented error, none returns data, and
\* validate_connection() returns false.
C24_UnimplementedFails ==
    provider_variant = "OpenRouter" =>
        \A i \in DOMAIN provider_calls :
            /\ provider_calls[i].op \in MessageOps \cup {"get_model_info", "list_models"} =>
                  /\ provider_calls[i].kind = "raise"
                  /\ provider_calls[i].exception = "NotImplementedError"
            /\ provider_calls[i].op = "validate_connection" =>
                  provider_calls[i].value = "False"

\* C25: every exception that escapes one of the four message operations of the
\* Anthropic, OpenAI or OpenRouter variant is a ProviderError or one of its
\* subclasses.
C25_ClosedTaxonomy ==
    \A i \in DOMAIN provider_calls :
        (provider_calls[i].op \in MessageOps /\ provider_calls[i].kind = "raise") =>
            provider_calls[i].exception \in Taxonomy

\* ------------------------------------------------------------------ MCPManager
\* an entry of connection_status: "connecting", "connected", "timeout" or
\* "failed: <reason>"
Status(state, reason) == [state |-> state, reason |-> reason]

\* how connect_to_server under wait_for ends (lines 116-162): it returns a
\* session, the transport cannot be entered, session.initialize() raises, the 30 s
\* pass before or after the contexts are entered, or sse_client rejects the
\* timeout argument
Connects == {"ok", "refused", "handshake_error", "connect_timeout", "handshake_timeout",
             "type_error"}

\* how the enumeration ends (lines 167-172): list_tools() returns and every
\* definition is wrapped, list_tools() raises or times out, or the first
\* definition is wrapped and registered and MCPTool() raises on the next one
\* (_parse_parameters on an input schema whose properties are not a mapping)
Catalogs == {"ok", "error", "timeout", "malformed"}

\* how connect_fallback under wait_for ends (lines 183-194)
Fallbacks == {"ok", "refused", "timeout"}

\* the contexts connect_to_server has entered on exit_stack when it ends
Entered(i, connect) ==
    IF connect \in {"ok", "handshake_error", "handshake_timeout"}
    THEN << <<i, "transport">>, <<i, "session">> >>
    ELSE <<>>

\* the exception that leaves the body of the inner try (lines 160-172)
BodyException(connect, catalog) ==
    CASE connect \in {"refused", "handshake_error"} -> "ConnectionError"
      [] connect \in {"connect_timeout", "handshake_timeout"} -> "TimeoutError"
      [] connect = "type_error" -> "TypeError"
      [] connect = "ok" /\ catalog = "error" -> "ConnectionError"
      [] connect = "ok" /\ catalog = "timeout" -> "TimeoutError"
      [] connect = "ok" /\ catalog = "malformed" -> "AttributeError"
      [] OTHER -> "none"

\* the except TypeError clause retries with connect_fallback (url endpoints)
FallbackRuns(kind, connect, catalog) ==
    BodyException(connect, catalog) = "TypeError" /\ kind = "url"

\* the exception that leaves the inner try statement (lines 174-203): a
\* TimeoutError is handled, a TypeError is re-raised for a command endpoint and
\* replaced by what the fallback raises for a url endpoint
InnerException(kind, connect, catalog, fallback) ==
    LET exc == BodyException(connect, catalog)
    IN CASE exc = "TimeoutError" -> "none"
         [] exc = "TypeError" /\ kind = "command" -> "TypeError"
         [] exc = "TypeError" /\ fallback = "refused" -> "ConnectionError"
         [] exc = "TypeError" /\ fallback = "timeout" -> "TimeoutError"
         [] exc = "TypeError" -> "none"
         [] OTHER -> exc

OuterMissesTypeError(exc) == exc # "TypeError"

\* the outer clause, except Exception (line 205), catches the exception
OuterCatches(exc) == TRUE

\* line 207
StatusOnError(exc) == Status("failed", exc)

\* connection_status[name] when the attempt is over
FinalStatus(kind, connect, catalog, fallback) ==
    LET exc == InnerException(kind, connect, catalog, fallback)
    IN IF exc # "none"
       THEN IF OuterCatches(exc) THEN StatusOnError(exc)
            ELSE IF connect = "ok" THEN Status("connected", "") ELSE Status("connecting", "")
       ELSE IF BodyException(connect, catalog) = "TimeoutError"
            THEN Status("timeout", "")
            ELSE Status("connected", "")

\* the manager after the attempt on endpoint i (lines 113-208)
AfterAttempt(m, i, connect, catalog, fallback) ==
    LET kind == m.servers[i]
        viaFallback == FallbackRuns(kind, connect, catalog) /\ fallback = "ok"
        hasSession == connect = "ok" \/ viaFallback
        hasTools == (connect = "ok" /\ catalog \in {"ok", "malformed"}) \/ viaFallback
    IN [m EXCEPT
          !.connection_status =
              MapPut(m.connection_status, i, FinalStatus(kind, connect, catalog, fallback)),
          !.sessions = IF hasSession THEN MapPut(m.sessions, i, <<i, "session">>)
                       ELSE m.sessions,
          !.tools = IF hasTools THEN MapPut(m.tools, i, [session |-> <<i, "session">>])
                    ELSE m.tools,
          !.exit_stack = m.exit_stack \o Entered(i, connect)
                         \o (IF viaFallback THEN Entered(i, "ok") ELSE <<>>)]

ClosesSessionsOnly(stack) == SelectSeq(stack, LAMBDA c : c[2] = "session")

\* the contexts exit_stack.aclose() closes (line 216)
ClosedByAclose(stack) == stack

\* ------------------------------------------------------------------ SpecMcp
\* initialize and cleanup calls on a manager, called one after the other, every
\* await of initialize ending in any of the ways above
InitMcp ==
    /\ messages = <<>>
    /\ max_history = 1
    /\ preTrim = <<>>
    /\ appendedLog = <<>>
    /\ EngineAtRest
    /\ ProviderAtRest
    /\ SessionsAtRest
    /\ \E servers \in [1..MaxServers -> EndpointKinds] : mcp_manager = NewManager(servers)
    /\ mcp_run = RunAtRest

McpFrame == UNCHANGED <<convVars, registryVars, execution_history, configVars, toolRunVars, engineSessionVars, disk,
                        turnVars, execVars, providerVars, sessionVars>>

\* initialize is called: it returns at once when _initialized is set (lines
\* 102-103) and enters its loop otherwise
InitializeStart ==
    /\ mcp_run.pc = 0
    /\ mcp_run.calls < MaxMcpCalls
    /\ mcp_run' = [mcp_run EXCEPT !.calls = @ + 1, !.op = "initialize", !.prev = mcp_run.op,
                                  !.attempted = {},
                                  !.ran = ~mcp_manager.initialized,
                                  !.pc = IF mcp_manager.initialized THEN 0 ELSE 1,
                                  !.result = IF mcp_manager.initialized THEN "returned"
                                             ELSE "running"]
    /\ UNCHANGED mcp_manager
    /\ McpFrame

InLoop == mcp_run.pc \in 1..Len(mcp_manager.servers)

\* lines 110-111: an entry with neither a url nor a command is passed over
SkipEndpoint ==
    /\ InLoop
    /\ mcp_manager.servers[mcp_run.pc] = "neither"
    /\ mcp_run' = [mcp_run EXCEPT !.pc = @ + 1]
    /\ UNCHANGED mcp_manager
    /\ McpFrame

\* lines 113-208: one endpoint is attempted; an exception the outer clause does
\* not catch leaves initialize
AttemptEndpoint(connect, catalog, fallback) ==
    /\ InLoop
    /\ LET i == mcp_run.pc
           kind == mcp_manager.servers[i]
           after == AfterAttempt(mcp_manager, i, connect, catalog, fallback)
           exc == InnerException(kind, connect, catalog, fallback)
           escapes == exc # "none" /\ ~OuterCatches(exc)
       IN /\ kind # "neither"
          /\ connect # "ok" => catalog = "ok"
          /\ ~FallbackRuns(kind, connect, catalog) => fallback = "ok"
          /\ mcp_manager' = after
          /\ mcp_run' = [mcp_run EXCEPT
                            !.attempted = @ \cup {i},
                            !.open = @ \o SubSeq(after.exit_stack,
                                                 Len(mcp_manager.exit_stack) + 1,
                                                 Len(after.exit_stack)),
                            !.pc = IF escapes THEN 0 ELSE i + 1,
                            !.result = IF escapes THEN "raised" ELSE "running"]
    /\ McpFrame

\* lines 210-212: the loop is over
InitializeEnd ==
    /\ mcp_run.pc = Len(mcp_manager.servers) + 1
    /\ mcp_manager' = [mcp_manager EXCEPT !.initialized = TRUE]
    /\ mcp_run' = [mcp_run EXCEPT !.pc = 0, !.result = "returned"]
    /\ McpFrame

\* MCPManager.cleanup, lines 216-219
Cleanup ==
    /\ mcp_run.pc = 0
    /\ mcp_run.calls < MaxMcpCalls
    /\ LET closed == ClosedByAclose(mcp_manager.exit_stack)
       IN mcp_run' = [mcp_run EXCEPT
                         !.calls = @ + 1, !.op = "cleanup", !.prev = mcp_run.op,
                         !.result = "returned",
                         !.open = SelectSeq(@, LAMBDA c :
                                      \A k \in DOMAIN closed : closed[k] # c)]
    /\ mcp_manager' = [mcp_manager EXCEPT !.exit_stack = <<>>, !.sessions = <<>>,
                                          !.tools = <<>>, !.initialized = FALSE]
    /\ McpFrame

NextMcp ==
    \/ InitializeStart
    \/ SkipEndpoint
    \/ \E connect \in Connects, catalog \in Catalogs, fallback \in Fallbacks :
           AttemptEndpoint(connect, catalog, fallback)
    \/ InitializeEnd
    \/ Cleanup

SpecMcp == InitMcp /\ [][NextMcp]_vars

\* ------------------------------------------------------------------ MCP claims
\* the configured endpoints that have a url or a command
Eligible == {i \in DOMAIN mcp_manager.servers : mcp_manager.servers[i] # "neither"}

\* an initialize call that ran its loop has returned
InitializeReturned ==
    mcp_run.op = "initialize" /\ mcp_run.result = "returned" /\ mcp_run.ran

\* C26: initialize never raises for a connection failure, a handshake timeout or
\* a catalog error; when it returns it has attempted every endpoint that has a
\* url or a command, whatever happened to the earlier ones, and each attempted
\* endpoint's status is connected, timeout or failed (none is connecting).
C26_McpFailureIsolated ==
    /\ mcp_run.result # "raised"
    /\ InitializeReturned =>
          /\ mcp_run.attempted = Eligible
          /\ \A i \in Eligible :
                /\ i \in DOMAIN mcp_manager.connection_status
                /\ mcp_manager.connection_status[i].state \in {"connected", "timeout", "failed"}

\* initialize returned with an endpoint connected, and its tool registered,
\* after an earlier endpoint failed or timed out
C26_Witness ==
    /\ InitializeReturned
    /\ \E i, j \in Eligible :
          /\ i < j
          /\ mcp_manager.connection_status[i].state \in {"failed", "timeout"}
          /\ mcp_manager.connection_status[j].state = "connected"
          /\ j \in DOMAIN mcp_manager.tools

C38_LiveCapability ==
    InitializeReturned =>
        /\ \A i \in DOMAIN mcp_manager.servers :
              (i \in DOMAIN mcp_manager.sessions) <=>
                  /\ i \in DOMAIN mcp_manager.connection_status
                  /\ mcp_manager.connection_status[i].state = "connected"
        /\ \A i \in DOMAIN mcp_manager.tools :
              mcp_manager.connection_status[i].state = "connected"

\* ------------------------------------------------------------------ ChatSession
\* MessageRole: a member is named by its value, so .value and MessageRole(...)
\* are lookups in the same table
RoleValue(role) == role
MessageRole(value) == CHOOSE role \in Roles : RoleValue(role) = value

\* a Message with its two Optional fields told apart from empty values:
\* tool_calls is None, [] or a list of calls; tool_call_id is None, "" or an id
StoredMessage(role, content, calls, call_id) ==
    [role |-> role, content |-> content, tool_calls |-> calls, tool_call_id |-> call_id]

\* the truth value Python gives an Optional list and an Optional str
TruthyList(opt) == opt # Absent /\ opt[1] # <<>>
TruthyStr(opt) == opt # Absent /\ opt[1] # ""

\* dict.get(key): None when the key is missing
DictGet(d, key) == IF key \in DOMAIN d THEN Given(d[key]) ELSE Absent

\* Message.to_dict, lines 33-44
MessageToDict(m) ==
    LET result == [role |-> RoleValue(m.role), content |-> m.content]
        withCalls == IF TruthyList(m.tool_calls)
                     THEN MapPut(result, "tool_calls", m.tool_calls[1])
                     ELSE result
    IN IF TruthyStr(m.tool_call_id)
       THEN MapPut(withCalls, "tool_call_id", m.tool_call_id[1])
       ELSE withCalls

\* Message.from_dict, lines 49-54
MessageFromDict(data) ==
    StoredMessage(MessageRole(data["role"]), data["content"],
                  DictGet(data, "tool_calls"), DictGet(data, "tool_call_id"))

\* the default of conv_data.get("max_history", 50)
DefaultMaxHistory == 50

\* ChatSession.to_dict, lines 40-47
SessionToDict(session) ==
    [info |-> session.info,
     conversation |->
        [messages |-> [i \in DOMAIN session.conversation.messages |->
                          MessageToDict(session.conversation.messages[i])],
         max_history |-> session.conversation.max_history,
         system_prompt |-> session.conversation.system_prompt]]

\* ChatSession.from_dict, lines 52-63
SessionFromDict(data) ==
    LET conv_data == data.conversation
    IN [info |-> data.info,
        conversation |->
           [messages |-> [i \in DOMAIN conv_data.messages |->
                             MessageFromDict(conv_data.messages[i])],
            max_history |-> IF "max_history" \in DOMAIN conv_data
                            THEN conv_data.max_history ELSE DefaultMaxHistory,
            system_prompt |-> IF "system_prompt" \in DOMAIN conv_data
                              THEN conv_data.system_prompt ELSE Absent]]

\* the messages a stored conversation is drawn from: the ones the engine
\* appends (a tool message carries tool_call.get("id", ""), chat.py 525) and an
\* assistant message built with an empty tool_calls list
StoredMessages ==
    {StoredMessage("system", "s", Absent, Absent),
     StoredMessage("user", "u", Absent, Absent),
     StoredMessage("assistant", "a", Absent, Absent),
     StoredMessage("assistant", "a",
                   Given(<<[id |-> "call_1", name |-> "calculator", arguments |-> <<>>]>>),
                   Absent),
     StoredMessage("assistant", "a", Given(<<>>), Absent),
     StoredMessage("tool", "r", Absent, Given("call_1")),
     StoredMessage("tool", "r", Absent, Given(""))}

StoredConversations == UNION {[1..n -> StoredMessages] : n \in 0..MaxSessionMsgs}

\* a session as create_session and save_session leave it: rich sessions carry a
\* tag and a system prompt
SessionOf(msgs, rich) ==
    [info |-> [session_id |-> "s1", title |-> "Chat", created_at |-> 0, updated_at |-> 0,
               provider |-> "anthropic", model |-> "m", message_count |-> Len(msgs),
               tags |-> IF rich THEN <<"work">> ELSE <<>>],
     conversation |-> [messages |-> msgs, max_history |-> MaxHist,
                       system_prompt |-> IF rich THEN Given("p") ELSE Absent]]

\* ------------------------------------------------------------------ SessionManager
SessionIds == {"s1", "missing"}
Formats == {"json", "text", "markdown", "other"}

\* SessionManager.load_session, lines 123-136: the cached session, or the one
\* read from its file and put in the cache, or None
LoadSession(m, id) ==
    IF id \in DOMAIN m.cache
    THEN [session |-> Given(m.cache[id]), manager |-> m]
    ELSE IF id \notin DOMAIN m.files
         THEN [session |-> Absent, manager |-> m]
         ELSE LET session == SessionFromDict(m.files[id])
              IN [session |-> Given(session),
                  manager |-> [m EXCEPT !.cache = MapPut(m.cache, id, session)]]

\* one line of an exported view
Line(kind, label, text) == [kind |-> kind, label |-> label, text |-> text]
Blank == Line("blank", "", <<>>)

\* the role_prefix table of the text format, lines 288-293
RolePrefix(role) ==
    CASE role = "system" -> "System"
      [] role = "user" -> "You"
      [] role = "assistant" -> "Assistant"
      [] role = "tool" -> "Tool"

\* the text format, lines 280-298
TextView(session) ==
    LET msgs == session.conversation.messages
    IN << Line("header", "Session", <<session.info.title>>),
          Line("header", "Created", <<session.info.created_at>>),
          Line("header", "Provider", <<session.info.provider, session.info.model>>),
          Line("header", "Messages", <<session.info.message_count>>),
          Blank >>
       \o [j \in 1..(2 * Len(msgs)) |->
              IF j % 2 = 1
              THEN Line("entry", RolePrefix(msgs[(j + 1) \div 2].role),
                        <<msgs[(j + 1) \div 2].content>>)
              ELSE Blank]

AllButSystem == Roles \ {"system"}

\* the roles the markdown format writes a section for, lines 314-323
MarkdownRoles == {"user", "assistant"}

\* the markdown format, lines 301-325
MarkdownView(session) ==
    LET msgs == SelectSeqBy(session.conversation.messages, MarkdownRoles)
    IN << Line("title", "#", <<session.info.title>>),
          Blank,
          Line("header", "Created", <<session.info.created_at>>),
          Line("header", "Provider", <<session.info.provider, session.info.model>>),
          Line("header", "Messages", <<session.info.message_count>>),
          Blank >>
       \o (IF session.info.tags # <<>>
           THEN << Line("header", "Tags", session.info.tags), Blank >>
           ELSE <<>>)
       \o [j \in 1..(4 * Len(msgs)) |->
              CASE j % 4 = 1 ->
                     Line("heading",
                          IF msgs[(j + 3) \div 4].role = "user" THEN "You" ELSE "Assistant",
                          <<>>)
                [] j % 4 = 3 -> Line("body", "", <<msgs[(j + 3) \div 4].content>>)
                [] OTHER -> Blank]

\* what export_session returns, lines 272-327: "" is the empty view
ExportView(loaded, format) ==
    IF loaded = Absent THEN <<>>
    ELSE CASE format = "json" -> <<SessionToDict(loaded[1])>>
           [] format = "text" -> TextView(loaded[1])
           [] format = "markdown" -> MarkdownView(loaded[1])
           [] OTHER -> <<>>

\* ------------------------------------------------------------------ SpecSession
\* a SessionManager that holds one saved session, cached or only on disk, on
\* which sessions are exported, saved and round-tripped through to_dict/from_dict
InitSession ==
    /\ messages = <<>>
    /\ max_history = 1
    /\ preTrim = <<>>
    /\ appendedLog = <<>>
    /\ EngineAtRest
    /\ ProviderAtRest
    /\ McpAtRest
    /\ \E msgs \in StoredConversations, rich \in BOOLEAN, cached \in BOOLEAN, active \in BOOLEAN :
          /\ active => cached
          /\ session_manager =
                [cache |-> IF cached THEN [id \in {"s1"} |-> SessionOf(msgs, rich)] ELSE <<>>,
                 files |-> [id \in {"s1"} |-> SessionToDict(SessionOf(msgs, rich))],
                 active |-> IF active THEN Given("s1") ELSE Absent]
    /\ session_run = SessionRunAtRest

SessionFrame == UNCHANGED <<convVars, registryVars, execution_history, configVars, toolRunVars, engineSessionVars, disk,
                            turnVars, execVars, providerVars, mcpVars>>

\* SessionManager.export_session
ExportSession(id, format) ==
    /\ LET loaded == LoadSession(session_manager, id)
       IN /\ session_manager' = loaded.manager
          /\ session_run' = [op |-> "export", id |-> id, format |-> format,
                             view |-> ExportView(loaded.session, format),
                             before |-> session_manager]
    /\ SessionFrame

\* SessionManager.save_session, lines 144-154, on a cached session
SaveSession(id) ==
    /\ id \in DOMAIN session_manager.cache
    /\ session_manager.cache[id].info.updated_at < MaxClock
    /\ LET session == session_manager.cache[id]
           saved == [session EXCEPT
                        !.info.updated_at = @ + 1,
                        !.info.message_count = Len(session.conversation.messages)]
       IN /\ session_manager' = [session_manager EXCEPT
                                    !.cache = MapPut(@, id, saved),
                                    !.files = MapPut(@, id, SessionToDict(saved))]
          /\ session_run' = [op |-> "save", id |-> id, format |-> "", view |-> <<>>,
                             before |-> session_manager]
    /\ SessionFrame

\* ChatSession.from_dict(session.to_dict()) on a cached session
RoundTrip(id) ==
    /\ id \in DOMAIN session_manager.cache
    /\ session_run' = [op |-> "round_trip", id |-> id, format |-> "",
                       view |-> <<SessionFromDict(SessionToDict(session_manager.cache[id]))>>,
                       before |-> session_manager]
    /\ UNCHANGED session_manager
    /\ SessionFrame

NextSession ==
    \/ \E id \in SessionIds, format \in Formats : ExportSession(id, format)
    \/ \E id \in SessionIds : SaveSession(id)
    \/ \E id \in SessionIds : RoundTrip(id)

SpecSession == InitSession /\ [][NextSession]_vars

\* ------------------------------------------------------------------ session claims
\* C28: ChatSession.from_dict(session.to_dict()) equals the session: the same
\* messages field by field and in order, the same max_history and
\* system_prompt, the same SessionInfo.
C28_SessionRoundTrip ==
    session_run.op = "round_trip" =>
        session_run.view[1] = session_run.before.cache[session_run.id]

\* the session an export call found, as the manager holds it afterwards
Exported == session_manager.cache[session_run.id]

\* an export call found its session
ExportFound ==
    /\ session_run.op = "export"
    /\ session_run.id \in DOMAIN session_run.before.cache \cup DOMAIN session_run.before.files

\* the lines of the given kind in the exported view
LinesOf(kind) == SelectSeq(session_run.view, LAMBDA line : line.kind = kind)

\* the user and assistant messages of the exported session, in order
Turns == SelectSeq(Exported.conversation.messages,
                   LAMBDA m : m.role = "user" \/ m.role = "assistant")

\* C29: export_session leaves the session files, every cached session (its
\* info with updated_at and message_count, its conversation) and the
\* active-session pointer as they were, a session read from disk being cached
\* as stored; the markdown view has one section per user and assistant message,
\* in order, and none for tool and system messages; the text view has one
\* role-prefixed entry per message, in order.
C29_ExportReadOnly ==
    session_run.op = "export" =>
        /\ session_manager.files = session_run.before.files
        /\ session_manager.active = session_run.before.active
        /\ \A id \in DOMAIN session_run.before.cache :
              /\ id \in DOMAIN session_manager.cache
              /\ session_manager.cache[id] = session_run.before.cache[id]
        /\ \A id \in DOMAIN session_manager.cache \ DOMAIN session_run.before.cache :
              SessionToDict(session_manager.cache[id]) = session_run.before.files[id]
        /\ (ExportFound /\ session_run.format = "markdown") =>
              /\ Len(LinesOf("heading")) = Len(Turns)
              /\ Len(LinesOf("body")) = Len(Turns)
              /\ \A i \in DOMAIN Turns :
                    /\ LinesOf("heading")[i].label =
                          (IF Turns[i].role = "user" THEN "You" ELSE "Assistant")
                    /\ LinesOf("body")[i].text = <<Turns[i].content>>
        /\ (ExportFound /\ session_run.format = "text") =>
              /\ Len(LinesOf("entry")) = Len(Exported.conversation.messages)
              /\ \A i \in DOMAIN Exported.conversation.messages :
                    /\ LinesOf("entry")[i].label =
                          RolePrefix(Exported.conversation.messages[i].role)
                    /\ LinesOf("entry")[i].text = <<Exported.conversation.messages[i].content>>

\* a markdown export of a session read from disk that holds a tool message and
\* a user message: one section
C29_Witness ==
    /\ ExportFound
    /\ session_run.format = "markdown"
    /\ session_run.id \notin DOMAIN session_run.before.cache
    /\ Len(Exported.conversation.messages) = 2
    /\ Exported.conversation.messages[1].role = "tool"
    /\ Exported.conversation.messages[2].role = "user"
    /\ Len(LinesOf("heading")) = 1

\* ------------------------------------------------------------------ SpecFlags
\* the tool registries an engine can hold when a turn starts: emptied by
\* unregister, holding only a class whose constructor may raise, or the
\* built-in classes registered by the ChatEngine constructor
Registries == {<<>>, [name \in {"custom"} |-> <<name, 1>>], BuiltinClasses}

\* the enable_tools and tools arguments of a call, and what a constructor
\* called by get_tool_schemas during it does
TurnInputs == [enable_tools : Overrides, tools : ToolsArgs, ctor_raises : BOOLEAN]

\* an idle engine of any configuration, about to run one turn with given arguments
InitFlags ==
    /\ messages = <<>>
    /\ max_history = MaxHist
    /\ preTrim = <<>>
    /\ appendedLog = <<>>
    /\ tools = <<>>
    /\ instantiated = 0
    /\ registry_calls = <<>>
    /\ tool_classes \in Registries
    /\ execution_history = <<>>
    /\ config_enable_tools \in BOOLEAN
    /\ supports_tools \in BOOLEAN
    /\ turn_inputs \in TurnInputs
    /\ tool_run = NoRun
    /\ engine_sessions = NoSessions
    /\ active_session = FALSE
    /\ disk = <<>>
    /\ pc = "idle"
    /\ mode = "none"
    /\ withTools = FALSE
    /\ tool_calls = <<>>
    /\ idx = 0
    /\ current_tool_call = 0
    /\ accumulated_content = <<>>
    /\ feedLen = 0
    /\ outcome = "none"
    /\ raisedBy = "none"
    /\ startMsgs = <<>>
    /\ created = 0
    /\ turnNo = 0
    /\ followups = 0
    /\ trace = <<>>
    /\ executed = <<>>
    /\ yielded = <<>>
    /\ finalItem = FALSE
    /\ sent = <<>>
    /\ stops = <<>>
    /\ running = {}
    /\ returned = <<>>
    /\ recordLog = <<>>
    /\ invoked = 0
    /\ ServicesAtRest

\* send_message(content, tools=..., enable_tools=...) up to its provider call
SendWithInputs ==
    SendMessage(turn_inputs.enable_tools, turn_inputs.tools, turn_inputs.ctor_raises)

\* stream_message(content, tools=..., enable_tools=...) up to its provider call
StreamWithInputs ==
    StreamMessage(turn_inputs.enable_tools, turn_inputs.tools, turn_inputs.ctor_raises)

NextFlags == SendWithInputs \/ StreamWithInputs

SpecFlags == InitFlags /\ [][NextFlags]_vars

\* ------------------------------------------------------------------ flag claims
\* the turn has reached its first provider call
ProviderCalled == pc \in {"send_first", "stream_feed"}

\* at least one tool is available to the call: a non-empty tools argument,
\* or, with no tools argument, a registry that yields at least one schema
AtLeastOneTool ==
    IF turn_inputs.tools = "None"
    THEN GetToolSchemas(turn_inputs.ctor_raises) # <<>>
    ELSE turn_inputs.tools = "some"

\* the engine-level rule: config.enable_tools, provider support, and a tool
ConfigRule == config_enable_tools /\ supports_tools /\ AtLeastOneTool

\* C30 as stated: in send_message and stream_message a given enable_tools
\* override alone decides whether the provider's tools-enabled operation is
\* used; with no override it is used exactly when config.enable_tools is true,
\* the provider advertises tool-calling support and at least one tool is
\* available; otherwise the plain operation is used.
C30_OverrideDecides ==
    ProviderCalled =>
        withTools = IF turn_inputs.enable_tools # "None"
                    THEN turn_inputs.enable_tools = "True"
                    ELSE ConfigRule

\* C30 (amended): an override of false selects the plain operation; an
\* override of true selects the tools-enabled operation exactly when the
\* provider advertises tool-calling support and at least one tool is
\* available; with no override it is selected exactly when config.enable_tools
\* is true, the provider advertises support and at least one tool is available.
C30_ToolResolution ==
    ProviderCalled =>
        withTools = CASE turn_inputs.enable_tools = "False" -> FALSE
                      [] turn_inputs.enable_tools = "True" ->
                             supports_tools /\ AtLeastOneTool
                      [] OTHER -> ConfigRule

\* a turn entered with enable_tools=True and an available tool on a provider
\* without tool-calling support, and the plain operation was chosen
C30_Witness ==
    /\ ProviderCalled
    /\ turn_inputs.enable_tools = "True"
    /\ AtLeastOneTool
    /\ ~supports_tools
    /\ ~withTools

\* ------------------------------------------------------------------ tool arguments
\* a Python value held as <<type name, text>>
PyNone == <<"NoneType", "None">>

\* the largest tool calls dispatched with concrete arguments in one behaviour
MaxDispatch == 2

\* CalculatorTool.parameters, lines 25-46
CalculatorOperations ==
    {"add", "subtract", "multiply", "divide", "power", "sqrt", "sin", "cos", "tan",
     "log", "abs"}

CalculatorParameters ==
    << [name |-> "operation", type |-> "string", required |-> TRUE,
        enum |-> CalculatorOperations],
       [name |-> "a", type |-> "number", required |-> TRUE, enum |-> {}],
       [name |-> "b", type |-> "number", required |-> FALSE, enum |-> {}] >>

\* the values a provider can report for each argument of a calculator call:
\* well-typed ones, an integer too large for a float, a NaN, text, null
ValuesFor(name) ==
    CASE name = "operation" ->
             {<<"str", "divide">>, <<"str", "add">>, <<"str", "sqrt">>,
              <<"str", "bogus">>, <<"int", "7">>}
      [] name = "a" ->
             {<<"int", "0">>, <<"int", "7">>, <<"int", "huge">>, <<"float", "nan">>,
              <<"str", "x">>, PyNone}
      [] name = "b" ->
             {<<"int", "0">>, <<"float", "0.0">>, <<"int", "7">>, <<"str", "0">>,
              <<"str", "x">>}

ParameterNames == {"operation", "a", "b"}

\* the arguments dicts of a calculator call: any subset of the parameters
ArgumentDicts ==
    UNION { {d \in [keys -> UNION {ValuesFor(n) : n \in ParameterNames}] :
                 \A k \in keys : d[k] \in ValuesFor(k)} : keys \in SUBSET ParameterNames }

\* kwargs.get(key)
KwargsGet(kwargs, key) == IF key \in DOMAIN kwargs THEN kwargs[key] ELSE PyNone

\* BaseTool._validate_parameter_type, lines 156-174
ValidateParameterType(param, value) ==
    IF param.enum # {} /\ ~(value[1] = "str" /\ value[2] \in param.enum)
    THEN FALSE
    ELSE CASE param.type = "string" -> value[1] = "str"
           [] param.type = "number" -> value[1] \in {"int", "float", "bool"}
           [] OTHER -> TRUE

\* the error text of a failed validation, by parameter
MissingRequired(name) ==
    CASE name = "operation" -> "Missing required parameter: operation"
      [] name = "a" -> "Missing required parameter: a"
      [] OTHER -> "Missing required parameter: b"

InvalidValue(name) ==
    CASE name = "operation" -> "Invalid value for parameter operation"
      [] name = "a" -> "Invalid value for parameter a"
      [] OTHER -> "Invalid value for parameter b"

\* BaseTool.validate_parameters, lines 117-154, on a parameter list: the
\* first required parameter that is missing, else the first present one whose
\* value fails its type; <<is_valid, error_message>>
ValidateParameters(parameters, arguments) ==
    LET missing == {i \in DOMAIN parameters :
                        parameters[i].required /\ parameters[i].name \notin DOMAIN arguments}
        invalid == {i \in DOMAIN parameters :
                        /\ parameters[i].name \in DOMAIN arguments
                        /\ ~ValidateParameterType(parameters[i],
                                                  arguments[parameters[i].name])}
        first(S) == CHOOSE i \in S : \A j \in S : i <= j
    IN IF missing # {} THEN <<FALSE, MissingRequired(parameters[first(missing)].name)>>
       ELSE IF invalid # {} THEN <<FALSE, InvalidValue(parameters[first(invalid)].name)>>
       ELSE <<TRUE, "None">>

\* float(value): the number as "zero", "nonzero" or "nan", or "raise" when the
\* conversion raises (text that is no number: ValueError; an integer beyond the
\* range of a float: OverflowError; None: TypeError)
Float(value) ==
    CASE value[1] = "int" /\ value[2] = "0" -> "zero"
      [] value[1] = "int" /\ value[2] = "huge" -> "raise"
      [] value[1] = "int" -> "nonzero"
      [] value[1] = "float" /\ value[2] = "0.0" -> "zero"
      [] value[1] = "float" /\ value[2] = "nan" -> "nan"
      [] value[1] = "float" -> "nonzero"
      [] value[1] = "str" /\ value[2] = "0" -> "zero"
      [] OTHER -> "raise"

CalculationError == ToolResult(FALSE, "None", "Calculation error")

\* a calculator that divides before it looks at the divisor
CalculatorDividesFirst(kwargs) ==
    LET operation == KwargsGet(kwargs, "operation")
        a == KwargsGet(kwargs, "a")
        b == KwargsGet(kwargs, "b")
    IN IF operation = PyNone \/ a = PyNone
       THEN ToolResult(FALSE, "None", "Missing required parameters: operation and a")
       ELSE IF Float(a) = "raise" \/ (b # PyNone /\ Float(b) = "raise")
       THEN CalculationError
       ELSE IF operation = <<"str", "divide">> /\ b # PyNone /\ Float(b) = "zero"
       THEN CalculationError
       ELSE ToolResult(TRUE, "value", "None")

\* CalculatorTool.execute, lines 48-182 (of the operations: add, divide and
\* sqrt of a non-negative number; every other operation value is unknown)
CalculatorExecute(kwargs) ==
    LET operation == KwargsGet(kwargs, "operation")
        a == KwargsGet(kwargs, "a")
        b == KwargsGet(kwargs, "b")
    IN IF operation = PyNone \/ a = PyNone
       THEN ToolResult(FALSE, "None", "Missing required parameters: operation and a")
       ELSE IF Float(a) = "raise" \/ (b # PyNone /\ Float(b) = "raise")
       THEN CalculationError
       ELSE CASE operation = <<"str", "add">> ->
                     IF b = PyNone
                     THEN ToolResult(FALSE, "None", "Add operation requires two numbers")
                     ELSE ToolResult(TRUE, "value", "None")
              [] operation = <<"str", "divide">> ->
                     IF b = PyNone
                     THEN ToolResult(FALSE, "None", "Divide operation requires two numbers")
                     ELSE IF Float(b) = "zero"
                     THEN ToolResult(FALSE, "None", "Division by zero is not allowed")
                     ELSE ToolResult(TRUE, "value", "None")
              [] operation = <<"str", "sqrt">> -> ToolResult(TRUE, "value", "None")
              [] OTHER -> ToolResult(FALSE, "None", "Unknown operation")

\* ------------------------------------------------------------------ SpecTools
ToolsFrame == UNCHANGED <<convVars, tool_classes, registry_calls, configVars, disk, turnVars,
                          engineSessionVars,
                          execVars, serviceVars>>

ToolRun(via, arguments, wasValidated, wasExecuted, result) ==
    [n |-> tool_run.n + 1, via |-> via, arguments |-> arguments,
     validated |-> wasValidated, executed |-> wasExecuted, raised |-> FALSE,
     result |-> result]

\* the dispatch of one calculator call by ChatEngine (chat.py 370 and 528):
\* ToolExecutor.execute_by_name, lines 110-118, then execute, lines 49-61
DispatchByName(arguments) ==
    /\ tool_run.n < MaxDispatch
    /\ LET got == GetTool("calculator", FALSE)
           result == CalculatorExecute(arguments)
       IN /\ tools' = got.reg
          /\ instantiated' = got.made
          /\ IF got.kind = "tool"
             THEN /\ execution_history' = RecordExecution(execution_history, "calculator",
                                                          result, "None", tool_run.n + 1)
                  /\ tool_run' = ToolRun("execute_by_name", arguments, FALSE, TRUE, result)
             ELSE /\ UNCHANGED execution_history
                  /\ tool_run' = ToolRun("execute_by_name", arguments, FALSE, FALSE,
                                         NotFoundResult)
    /\ ToolsFrame

\* ToolRegistry.execute_tool, lines 202-222: validate, then execute on an
\* executor of its own
ExecuteTool(arguments) ==
    /\ tool_run.n < MaxDispatch
    /\ LET got == GetTool("calculator", FALSE)
           valid == ValidateParameters(CalculatorParameters, arguments)
       IN /\ tools' = got.reg
          /\ instantiated' = got.made
          /\ tool_run' = IF got.kind # "tool"
                         THEN ToolRun("execute_tool", arguments, FALSE, FALSE,
                                      ToolResult(FALSE, "None", "not found"))
                         ELSE IF valid[1]
                         THEN ToolRun("execute_tool", arguments, TRUE, TRUE,
                                      CalculatorExecute(arguments))
                         ELSE ToolRun("execute_tool", arguments, TRUE, FALSE,
                                      ToolResult(FALSE, "None", valid[2]))
    /\ UNCHANGED execution_history
    /\ ToolsFrame

NextTools ==
    \/ \E arguments \in ArgumentDicts : DispatchByName(arguments)
    \/ \E arguments \in ArgumentDicts : ExecuteTool(arguments)

\* the engine of SpecExec, dispatching calculator calls with concrete arguments
SpecTools == InitExec /\ [][NextTools]_vars

\* ------------------------------------------------------------------ tool claims
\* the call omits a required parameter or gives a mis-typed value
BadArguments == ~ValidateParameters(CalculatorParameters, tool_run.arguments)[1]

ValidationErrors ==
    {MissingRequired(n) : n \in ParameterNames} \cup {InvalidValue(n) : n \in ParameterNames}

\* C31: for every tool call the ChatEngine dispatches, the arguments are
\* validated against the tool's ToolParameter list first, and a call that
\* omits a required parameter or gives a mis-typed value yields a
\* validation-error ToolResult without the tool's execute being invoked.
C31_ValidatedBeforeExecution ==
    tool_run.via = "execute_by_name" =>
        /\ tool_run.validated
        /\ BadArguments =>
               /\ ~tool_run.executed
               /\ ~tool_run.result.success
               /\ tool_run.result.error \in ValidationErrors

\* the calculator ran a division of a number by zero
DividedByZero ==
    /\ tool_run.executed
    /\ KwargsGet(tool_run.arguments, "operation") = <<"str", "divide">>
    /\ KwargsGet(tool_run.arguments, "b") \in {<<"int", "0">>, <<"float", "0.0">>}
    /\ KwargsGet(tool_run.arguments, "a")[1] \in {"int", "float"}

DivisionByZeroResult == ToolResult(FALSE, "None", "Division by zero is not allowed")

\* C32 as stated: the calculator executed with operation 'divide' and b equal
\* to 0, for any a, returns success=false, the error 'Division by zero is not
\* allowed' and a null result, and raises nothing.
C32_DivisionByZero ==
    DividedByZero => (~tool_run.raised /\ tool_run.result = DivisionByZeroResult)

\* C32 (amended): the calculator executed with operation 'divide', b equal to
\* 0 and a any number that float() converts (an integer within the range of a
\* float, or a float) returns success=false, the error 'Division by zero is
\* not allowed' and a null result, and raises nothing.
C32_DivisionByZeroOfFloat ==
    (DividedByZero /\ Float(tool_run.arguments["a"]) # "raise") =>
        (~tool_run.raised /\ tool_run.result = DivisionByZeroResult)

\* 7 / 0 or NaN / 0 was executed and reported as division by zero
C32_Witness ==
    /\ DividedByZero
    /\ tool_run.arguments["a"] \in {<<"int", "7">>, <<"float", "nan">>}
    /\ tool_run.result = DivisionByZeroResult

\* ------------------------------------------------------------------ ChatEngine sessions
\* calls on the engine's session operations explored in one behaviour
MaxSessionOps == 3

\* the ids uuid4 hands out, in order; "s0" is a session of an earlier run
SessionName(n) ==
    CASE n = 1 -> "s1" [] n = 2 -> "s2" [] n = 3 -> "s3" [] n = 4 -> "s4" [] OTHER -> "s5"

RequestedSessions == {"s0", "s1", "missing"}

SystemMessage == Message("system", <<"p">>, <<>>, <<>>, 0)
UserMessage(turn) == Message("user", <<"u">>, <<>>, <<>>, turn)
AssistantMessage(turn) == Message("assistant", <<"a">>, <<>>, <<>>, turn)

\* a session file: the messages stored, and whether its mtime is past the
\* cutoff of cleanup_old_sessions
SessionFile(msgs, old) == [messages |-> msgs, old |-> old]

\* the messages of a session saved by an earlier run
EarlierMessages(withSystem) ==
    (IF withSystem THEN <<SystemMessage>> ELSE <<>>) \o <<UserMessage(0), AssistantMessage(0)>>

\* ChatEngine.__init__, lines 37 and 50-59: a fresh SessionManager over the
\* sessions directory and a temporary Conversation that starts with the
\* system prompt when there is one
NewEngine(prompt, files) ==
    [system_prompt |-> prompt,
     heap |-> << IF prompt # Absent THEN <<SystemMessage>> ELSE <<>> >>,
     conversation |-> 1, cache |-> <<>>, files |-> files, active |-> Absent,
     created |-> 0, ops |-> 0, provided |-> Absent, loaded |-> Absent,
     origin |-> "constructed",
     last |-> [op |-> "none", id |-> "", ok |-> FALSE, before |-> Absent]]

\* the call op(id) ended with ok; before is _active_session when it began
CallDone(e, op, id, ok) ==
    [op |-> op, id |-> id, ok |-> ok, before |-> e.active]

\* the session the manager calls active: get_active_session, lines 198-200
ActiveSession(e) ==
    IF e.active # Absent /\ e.active[1] \in DOMAIN e.cache THEN e.active ELSE Absent

\* SessionManager.create_session, lines 87-119: a new Conversation without
\* messages, cached, made active and saved
ManagerCreateSession(e) ==
    LET id == SessionName(e.created + 1)
        ref == Len(e.heap) + 1
    IN [e EXCEPT !.heap = Append(@, <<>>),
                 !.cache = MapPut(@, id, ref),
                 !.active = Given(id),
                 !.files = MapPut(@, id, SessionFile(<<>>, FALSE)),
                 !.created = @ + 1]

\* SessionManager.load_session, lines 123-136: ref is the Conversation of the
\* session returned, 0 for None; a session read from its file is a new object
ManagerLoadSession(e, id) ==
    IF id \in DOMAIN e.cache
    THEN [ref |-> e.cache[id], engine |-> e]
    ELSE IF id \notin DOMAIN e.files
         THEN [ref |-> 0, engine |-> e]
         ELSE [ref |-> Len(e.heap) + 1,
               engine |-> [e EXCEPT !.heap = Append(@, e.files[id].messages),
                                    !.cache = MapPut(@, id, Len(e.heap) + 1)]]

\* a delete_session that drops the cache entry and leaves the pointer alone
ManagerDeleteKeepsPointer(e, id, unlinkRaises) ==
    IF unlinkRaises /\ id \in DOMAIN e.files
    THEN [ok |-> FALSE, engine |-> e]
    ELSE [ok |-> TRUE,
          engine |-> [e EXCEPT !.files = MapDel(@, id), !.cache = MapDel(@, id)]]

\* SessionManager.delete_session, lines 158-174
ManagerDeleteSession(e, id, unlinkRaises) ==
    IF unlinkRaises /\ id \in DOMAIN e.files
    THEN [ok |-> FALSE, engine |-> e]
    ELSE [ok |-> TRUE,
          engine |-> [e EXCEPT !.files = MapDel(@, id),
                               !.cache = MapDel(@, id),
                               !.active = IF @ = Given(id) THEN Absent ELSE @]]

\* SessionManager.save_session, lines 144-152, on the active session
SaveActiveSession(e) ==
    IF ActiveSession(e) = Absent
    THEN e
    ELSE [e EXCEPT !.files = MapPut(@, e.active[1],
                                    SessionFile(e.heap[e.cache[e.active[1]]], FALSE))]

\* ------------------------------------------------------------------ SpecEngine
InitEngine ==
    /\ messages = <<>>
    /\ max_history = MaxHist
    /\ preTrim = <<>>
    /\ appendedLog = <<>>
    /\ tools = <<>>
    /\ instantiated = 0
    /\ registry_calls = <<>>
    /\ tool_classes = BuiltinClasses
    /\ execution_history = <<>>
    /\ config_enable_tools = TRUE
    /\ supports_tools = TRUE
    /\ turn_inputs = AnyInputs
    /\ tool_run = NoRun
    /\ active_session = FALSE
    /\ disk = <<>>
    /\ pc = "idle"
    /\ mode = "none"
    /\ withTools = FALSE
    /\ tool_calls = <<>>
    /\ idx = 0
    /\ current_tool_call = 0
    /\ accumulated_content = <<>>
    /\ feedLen = 0
    /\ outcome = "none"
    /\ raisedBy = "none"
    /\ startMsgs = <<>>
    /\ created = 0
    /\ turnNo = 0
    /\ followups = 0
    /\ trace = <<>>
    /\ executed = <<>>
    /\ yielded = <<>>
    /\ finalItem = FALSE
    /\ sent = <<>>
    /\ stops = <<>>
    /\ running = {}
    /\ returned = <<>>
    /\ recordLog = <<>>
    /\ invoked = 0
    /\ ServicesAtRest
    /\ \E prompt \in {Absent, Given("p")}, earlier \in BOOLEAN, withSystem \in BOOLEAN,
          old \in BOOLEAN :
          engine_sessions =
              NewEngine(prompt,
                        IF earlier
                        THEN [id \in {"s0"} |-> SessionFile(EarlierMessages(withSystem), old)]
                        ELSE <<>>)

EngineFrame == UNCHANGED <<convVars, registryVars, execution_history, configVars,
                           toolRunVars, disk, turnVars, execVars, serviceVars>>

\* one more call on the engine or its manager
EngineStep(after) ==
    /\ engine_sessions.ops < MaxSessionOps
    /\ engine_sessions' = [after EXCEPT !.ops = @ + 1]
    /\ EngineFrame

\* ChatEngine.create_new_session, lines 102-113
CreateNewSession ==
    LET made == ManagerCreateSession(engine_sessions)
    IN EngineStep([made EXCEPT !.conversation = Len(made.heap),
                               !.origin = "created",
                               !.loaded = Absent,
                               !.last = CallDone(engine_sessions, "create",
                                                 SessionName(made.created), TRUE)])

\* ChatEngine.load_session, lines 117-121
EngineLoadSession(id) ==
    LET got == ManagerLoadSession(engine_sessions, id)
    IN EngineStep([got.engine EXCEPT
                       !.conversation = IF got.ref # 0 THEN got.ref ELSE @,
                       !.origin = IF got.ref # 0 THEN "loaded" ELSE @,
                       !.loaded = IF got.ref # 0 THEN Given(id) ELSE Absent,
                       !.last = CallDone(engine_sessions, "load", id, got.ref # 0)])

\* ChatEngine.delete_session, line 150
EngineDeleteSession(id, unlinkRaises) ==
    LET got == ManagerDeleteSession(engine_sessions, id, unlinkRaises)
    IN /\ unlinkRaises => id \in DOMAIN engine_sessions.files
       /\ EngineStep([got.engine EXCEPT
                          !.loaded = Absent,
                          !.last = CallDone(engine_sessions, "delete", id, got.ok)])

\* ChatEngine.clear_conversation, lines 599-604
ClearConversation ==
    LET e == engine_sessions
        cleared == IF e.system_prompt # Absent
                   THEN AddMessageTo(<<>>, SystemMessage, max_history)
                   ELSE <<>>
    IN EngineStep([e EXCEPT !.heap[e.conversation] = cleared,
                            !.loaded = Absent,
                            !.last = CallDone(e, "clear", "", TRUE)])

\* one send_message or stream_message turn without tool calls: the user
\* message, the provider call on the messages of engine.conversation, then
\* either the assistant message and the auto-save, or the pop of the handler
EngineTurn(raises) ==
    LET e == engine_sessions
        turn == e.ops + 1
        asked == AddMessageTo(e.heap[e.conversation], UserMessage(turn), max_history)
        answered == AddMessageTo(asked, AssistantMessage(turn), max_history)
        target == IF e.loaded # Absent THEN e.loaded[1] ELSE ""
    IN IF raises
       THEN EngineStep([e EXCEPT !.heap[e.conversation] = PopLast(asked),
                                 !.provided = Given(asked),
                                 !.loaded = Absent,
                                 !.last = CallDone(e, "turn", target, FALSE)])
       ELSE EngineStep([SaveActiveSession([e EXCEPT !.heap[e.conversation] = answered])
                           EXCEPT !.provided = Given(asked),
                                  !.loaded = Absent,
                                  !.last = CallDone(e, "turn", target, TRUE)])

NextEngine ==
    \/ CreateNewSession
    \/ \E id \in RequestedSessions : EngineLoadSession(id)
    \/ \E id \in RequestedSessions, unlinkRaises \in BOOLEAN :
           EngineDeleteSession(id, unlinkRaises)
    \/ ClearConversation
    \/ \E raises \in BOOLEAN : EngineTurn(raises)

SpecEngine == InitEngine /\ [][NextEngine]_vars

\* ------------------------------------------------------------------ engine session claims
\* C33: whenever the SessionManager has an active session, the ChatEngine's
\* conversation is that session's conversation object, after any sequence of
\* create_new_session, load_session, delete_session and clear_conversation; and
\* after load_session(id) returned true for a session other than the active
\* one, the auto-save at the end of the next turn writes that turn's messages
\* to session id.
C33_PersistedIsModified ==
    LET e == engine_sessions
    IN /\ ActiveSession(e) # Absent => e.conversation = e.cache[e.active[1]]
       /\ (e.last.op = "turn" /\ e.last.ok /\ e.last.id # "" /\ e.last.before # Given(e.last.id))
              => /\ e.last.id \in DOMAIN e.files
                 /\ e.files[e.last.id].messages = e.heap[e.conversation]

\* C35: whenever the engine's config has a system prompt, the message list
\* passed to the provider on a turn starts with a system-role message carrying
\* that prompt, on the conversation of the constructor and on the one of
\* create_new_session, cleared or not.
C35_SystemPromptProvided ==
    LET e == engine_sessions
    IN (e.system_prompt # Absent /\ e.provided # Absent /\ e.origin # "loaded")
           => /\ e.provided[1] # <<>>
              /\ e.provided[1][1] = SystemMessage

\* ------------------------------------------------------------------ SpecManager
\* SessionManager.set_active_session, lines 204-208
SetActiveSession(id) ==
    LET got == ManagerLoadSession(engine_sessions, id)
    IN EngineStep([got.engine EXCEPT
                       !.active = IF got.ref # 0 THEN Given(id) ELSE @,
                       !.loaded = Absent,
                       !.last = CallDone(engine_sessions, "set_active", id, got.ref # 0)])

\* one pass of the loop of cleanup_old_sessions, lines 250-266, over the files
\* in ids: a file past the cutoff is unlinked and its session forgotten
RECURSIVE CleanupFiles(_, _)
CleanupFiles(e, ids) ==
    IF ids = {}
    THEN e
    ELSE LET id == CHOOSE x \in ids : TRUE
             next == IF e.files[id].old
                     THEN [e EXCEPT !.files = MapDel(@, id),
                                    !.cache = MapDel(@, id),
                                    !.active = IF @ = Given(id) THEN Absent ELSE @]
                     ELSE e
         IN CleanupFiles(next, ids \ {id})

\* SessionManager.cleanup_old_sessions
CleanupOldSessions ==
    LET e == engine_sessions
    IN EngineStep([CleanupFiles(e, DOMAIN e.files) EXCEPT
                       !.loaded = Absent,
                       !.last = CallDone(e, "cleanup", "", TRUE)])

\* the session operations of the engine, and those of its manager called directly
NextManager ==
    \/ NextEngine
    \/ \E id \in RequestedSessions : SetActiveSession(id)
    \/ CleanupOldSessions

SpecManager == InitEngine /\ [][NextManager]_vars

\* C34: after any sequence of create_session, load_session,
\* set_active_session, delete_session and cleanup_old_sessions the active
\* session id is unset or the id of a session in the cache; a delete_session
\* of the active session unsets the pointer and one of another session leaves
\* it unchanged.
C34_ActivePointer ==
    LET e == engine_sessions
    IN /\ e.active = Absent \/ e.active[1] \in DOMAIN e.cache
       /\ (e.last.op = "delete" /\ e.last.ok) =>
              e.active = IF e.last.before = Given(e.last.id) THEN Absent ELSE e.last.before

\* the active session was deleted, by delete_session or by cleanup_old_sessions
C34_Witness ==
    LET e == engine_sessions
    IN /\ e.last.op \in {"delete", "cleanup"}
       /\ e.last.ok
       /\ e.last.before # Absent
       /\ e.active = Absent

\* ------------------------------------------------------------------ SpecAbandon
\* a streamed turn whose consumer stops consuming: the async generator is
\* closed (aclose, or the consuming task is cancelled) while it is suspended
\* after a chunk was handed over.  GeneratorExit and CancelledError derive from
\* BaseException, so neither the except Exception of the loop at stop (line
\* 390) nor the one of the turn (line 432) takes them.

\* the generator is suspended at a yield of the loop at stop (lines 387, 393)
AtLoopYield ==
    /\ pc = "stream_loop"
    /\ trace # <<>>
    /\ trace[Len(trace)][1] \in {"msg", "skip"}
    /\ trace[Len(trace)][2] = idx - 1

\* the generator is suspended at a yield of the feed loop (lines 353, 399,
\* 410) or at the await of the item that follows it
AtFeedYield == pc = "stream_feed" /\ yielded # <<>>

ClosePops(msgs) == PopLast(msgs)

\* lines 432-435 when the generator is closed: the clause except Exception is
\* passed over, the Conversation is left as it is
ClosePassesHandler(msgs) == msgs

\* the consumer closes the generator before the feed ends
StreamClosed ==
    /\ mode = "stream"
    /\ AtLoopYield \/ AtFeedYield
    /\ messages' = ClosePassesHandler(messages)
    /\ outcome' = "closed"
    /\ pc' = "done"
    /\ UNCHANGED <<tools, instantiated, execution_history, disk, withTools, tool_calls,
                   idx, current_tool_call, accumulated_content, feedLen, created,
                   raisedBy, followups, trace>>
    /\ UNCHANGED <<executed, yielded, finalItem, sent, stops>>
    /\ TurnFrame

NextAbandon == NextStream \/ StreamClosed

SpecAbandon == InitChat /\ [][NextAbandon]_vars

\* the messages the history cap keeps besides the system messages
KeptOthers ==
    max_history - Cardinality({i \in DOMAIN messages : messages[i].role = "system"})

\* the messages appended in this turn that are in the Conversation
TurnMessages == {i \in DOMAIN messages : messages[i].n > Len(startMsgs)}

====
